---- MODULE Spec2Model ----
(***************************************************************************)
(* A state-machine model of the custody engine: the sealed vault, the      *)
(* operational-DID registry, the vault-side signing handlers, the MPC      *)
(* signing coordinator, the node-local DKG engine and the provisioning and *)
(* rotation handlers.  Every custody node is one process with its own      *)
(* vault backend, registry and DKG session table.                          *)
(***************************************************************************)
EXTENDS Integers, Sequences, FiniteSets, TLC

VARIABLES
    vaultInit,  \* [Nodes -> BOOLEAN]: the process-wide VAULT OnceLock is set
    store,      \* [Nodes -> [vault id -> SealedBlob]]: SimulatedTEEBackend.store
    entries,    \* [Nodes -> [operational DID -> OperationalDIDEntry]]
    audit,      \* [Nodes -> the records of the node's AUDIT tracker, oldest first]
    mut,        \* [Threads -> a vault mutator call in flight]
    regLast,    \* the last registry call and what the registry held for its DID before it
    sess,       \* [Sessions -> a coordinator sign call and its SigningSession]
    nonceCtr,   \* how many nonces the nodes' random generators have produced
    vaultLast,  \* the last vault signing call and what the vault held before it
    down,       \* the nodes whose vault service cannot be connected to
    dkg,        \* [Nodes -> [group id -> DKGSession]]: DKGEngine.sessions
    uuidCtr,    \* how many uuids have been minted
    svc,        \* the provisioning or rotation call in flight
    dkgLast,    \* the last call to one node's DKGEngine and the session it found
    malformed,  \* the <<node, group id>> whose session was sent a malformed payload
    tracker,    \* an AuditTracker of its own: max_entries and records, oldest first
    trackerLast \* every record logged to tracker, in order, and its last recent call

signVars == <<sess, nonceCtr, vaultLast, down>>
dkgVars == <<dkg, uuidCtr, svc, dkgLast, malformed>>
vars == <<vaultInit, store, entries, audit, mut, regLast, signVars, dkgVars,
          tracker, trackerLast>>

----------------------------------------------------------------------------
(* Identities and input domains *)

Nodes == {"n1", "n2", "n3"}
DIDs == {"did:op:A", "did:op:B"}
RootDIDs == {"did:root:R1", "did:root:R2"}
VaultIds == {"vault-1", "vault-2"}
Threads == {"t1", "t2"}
Sessions == {"s1", "s2"}
IVs == {0, 1}

\* Option<T>
None == << >>
Some(x) == <<x>>
IsSome(o) == o # << >>
Unwrap(o) == o[1]

\* Result<T, E>
Ok(v) == [ok |-> TRUE, val |-> Some(v), err |-> "none"]
Err(e) == [ok |-> FALSE, val |-> None, err |-> e]

\* HashMap helpers
Insert(m, k, v) == (k :> v) @@ m
Remove(m, k) == [x \in DOMAIN m \ {k} |-> m[x]]
EmptyMap == << >>


----------------------------------------------------------------------------
(* Sealed vault *)

EmptyRecord ==
    [mpc_shard |-> None, public_keys |-> << >>, vcs |-> << >>,
     bbs_private_key |-> None, bbs_public_key |-> None, active_nonce |-> None]


Encrypt(key, iv, plaintext) == [key |-> key, iv |-> iv, plaintext |-> plaintext]

Decrypt(key, iv, ciphertext) ==
    IF ciphertext.key = key /\ ciphertext.iv = iv
    THEN Ok(ciphertext.plaintext)
    ELSE Err("Decryption failed")

\* SimulatedTEEBackend::store_record on node n's map st, with the drawn GCM nonce iv.
BackendStore(n, st, vault_id, record, iv) ==
    Insert(st, vault_id, [ciphertext |-> Encrypt(<<"aes-key", n>>, iv, record), nonce |-> iv])

\* A load_record that decrypts under the first GCM nonce instead of the blob's own.
BackendLoadWithFixedNonce(n, st, vault_id) ==
    IF vault_id \notin DOMAIN st
    THEN Err("Vault ID not found")
    ELSE Decrypt(<<"aes-key", n>>, 0, st[vault_id].ciphertext)

\* SimulatedTEEBackend::load_record
BackendLoad(n, st, vault_id) ==
    IF vault_id \notin DOMAIN st
    THEN Err("Vault ID not found")
    ELSE Decrypt(<<"aes-key", n>>, st[vault_id].nonce, st[vault_id].ciphertext)

\* vault::init_vault on a process whose VAULT is set or not: OnceLock::set fails
\* on a set cell without replacing its value, and expect then panics.
init_vault(set) ==
    IF set THEN [res |-> Err("panic: Vault already initialized"), set |-> TRUE]
    ELSE [res |-> Ok("unit"), set |-> TRUE]

\* vault::load_record / vault::store_record: the global VAULT must be set.
load_record(n, vault_id) ==
    IF ~vaultInit[n] THEN Err("Vault not initialized")
    ELSE BackendLoad(n, store[n], vault_id)

\* The store map of node n after vault::store_record (unchanged on error).
store_record(n, st, vault_id, record, iv) ==
    IF ~vaultInit[n] THEN [res |-> Err("Vault not initialized"), st |-> st]
    ELSE [res |-> Ok("unit"), st |-> BackendStore(n, st, vault_id, record, iv)]

\* The GCM nonce does not influence what load_record returns; handlers outside
\* the vault specification seal with this one.
FixedIV == CHOOSE iv \in IVs : TRUE

(* The read-modify part of each convenience mutator: the record to store, or
   the error it returns before storing. *)
ModAddShard(record, shard) == Ok([record EXCEPT !.mpc_shard = Some(shard)])

ModAddVc(record, vc_id, vc_json) ==
    IF \E i \in 1..Len(record.vcs) : record.vcs[i].vc_id = vc_id
    THEN Err("VC ID already exists")
    ELSE Ok([record EXCEPT !.vcs =
                Append(@, [vc_id |-> vc_id, vc_json |-> vc_json, is_revoked |-> FALSE])])

ModRevokeVc(record, vc_id) ==
    IF ~\E i \in 1..Len(record.vcs) : record.vcs[i].vc_id = vc_id
    THEN Err("VC ID not found")
    ELSE LET i == CHOOSE j \in 1..Len(record.vcs) :
                    /\ record.vcs[j].vc_id = vc_id
                    /\ \A k \in 1..(j - 1) : record.vcs[k].vc_id # vc_id
         IN Ok([record EXCEPT !.vcs[i].is_revoked = TRUE])

ModDeleteVc(record, vc_id) ==
    LET KeepVc(vc) == vc.vc_id # vc_id
        kept == SelectSeq(record.vcs, KeepVc)
    IN IF Len(kept) = Len(record.vcs)
       THEN Err("VC ID not found")
       ELSE Ok([record EXCEPT !.vcs = kept])

ModSetBbsPrivateKey(record, key) == Ok([record EXCEPT !.bbs_private_key = Some(key)])

ModSetBbsPublicKey(record, key) == Ok([record EXCEPT !.bbs_public_key = Some(key)])

ModAddPublicKey(record, key) ==
    IF (\E i \in 1..Len(record.public_keys) : record.public_keys[i] = key)
    THEN Err("Key already exists")
    ELSE Ok([record EXCEPT !.public_keys = Append(@, key)])

ModRemovePublicKey(record, key) ==
    LET KeepKey(k) == k # key
        kept == SelectSeq(record.public_keys, KeepKey)
    IN IF Len(kept) = Len(record.public_keys)
       THEN Err("Key not found")
       ELSE Ok([record EXCEPT !.public_keys = kept])

Modify(op, record, arg) ==
    CASE op = "add_shard" -> ModAddShard(record, arg)
      [] op = "add_vc" -> ModAddVc(record, arg, <<"json", arg>>)
      [] op = "revoke_vc" -> ModRevokeVc(record, arg)
      [] op = "delete_vc" -> ModDeleteVc(record, arg)
      [] op = "set_bbs_private_key" -> ModSetBbsPrivateKey(record, arg)
      [] op = "set_bbs_public_key" -> ModSetBbsPublicKey(record, arg)
      [] op = "add_public_key" -> ModAddPublicKey(record, arg)
      [] op = "remove_public_key" -> ModRemovePublicKey(record, arg)

\* A whole mutator run without interruption: load_record, modify, store_record.
Mutate(n, st, vault_id, op, arg) ==
    LET loaded == IF ~vaultInit[n] THEN Err("Vault not initialized")
                  ELSE BackendLoad(n, st, vault_id)
    IN IF ~loaded.ok THEN [res |-> loaded, st |-> st]
       ELSE LET m == Modify(op, Unwrap(loaded.val), arg)
            IN IF ~m.ok THEN [res |-> m, st |-> st]
               ELSE store_record(n, st, vault_id, Unwrap(m.val), FixedIV)

----------------------------------------------------------------------------
(* Audit log *)

\* AUDIT = AuditTracker::new(500)
AuditGlobalMax == 500

AuditRecord(event_type, session_id, message) ==
    [event_type |-> event_type, session_id |-> session_id, message |-> message]

\* A log that evicts one record too early.
AuditLogEvictEarly(records, max_entries, record) ==
    IF Len(records) + 1 >= max_entries /\ records # << >>
    THEN Append(Tail(records), record)
    ELSE Append(records, record)

\* AuditTracker::log on a tracker of capacity max_entries; pop_front of an
\* empty deque removes nothing.
AuditLog(records, max_entries, record) ==
    IF Len(records) = max_entries
    THEN Append(IF records = << >> THEN records ELSE Tail(records), record)
    ELSE Append(records, record)

\* AuditTracker::new
AuditTrackerNew(max_entries) == [max_entries |-> max_entries, records |-> << >>]

\* A recent that takes from the front of the buffer.
RecentOldestFirst(records, count) ==
    [i \in 1..(IF count < Len(records) THEN count ELSE Len(records)) |-> records[i]]

\* AuditTracker::recent: records.iter().rev().take(count)
recent(records, count) ==
    [i \in 1..(IF count < Len(records) THEN count ELSE Len(records)) |->
        records[Len(records) + 1 - i]]

\* The model stops logging handlers once the global log holds this many records.
MaxAuditLen == 1

----------------------------------------------------------------------------
(* Operational-DID registry *)

\* A registration that replaces whatever entry the DID has.
RegisterOverwriting(reg, op_did, root_did, vault_id, did_doc) ==
    [res |-> Ok("unit"),
     reg |-> Insert(reg, op_did,
                    [root_did_hash |-> <<"roothash:", <<"blake3", root_did>>>>,
                     vault_id |-> vault_id,
                     mpc_group |-> None,
                     did_document |-> Some(did_doc)])]

\* A registration that stores the digest of one fixed root DID.
RegisterFixedRoot(reg, op_did, root_did, vault_id, did_doc) ==
    IF op_did \in DOMAIN reg
    THEN [res |-> Err("AlreadyExists"), reg |-> reg]
    ELSE [res |-> Ok("unit"),
          reg |-> Insert(reg, op_did,
                         [root_did_hash |-> <<"roothash:", <<"blake3", "did:root:R1">>>>,
                          vault_id |-> vault_id,
                          mpc_group |-> None,
                          did_document |-> Some(did_doc)])]

\* A registration that lists a group for the new entry.
RegisterWithGroup(reg, op_did, root_did, vault_id, did_doc) ==
    IF op_did \in DOMAIN reg
    THEN [res |-> Err("AlreadyExists"), reg |-> reg]
    ELSE [res |-> Ok("unit"),
          reg |-> Insert(reg, op_did,
                         [root_did_hash |-> <<"roothash:", <<"blake3", root_did>>>>,
                          vault_id |-> vault_id,
                          mpc_group |-> Some([group_id |-> "group-1", members |-> << >>,
                                              threshold |-> 2,
                                              dkg_protocol |-> Some("frost-dkg-v1"),
                                              session_state |-> None]),
                          did_document |-> Some(did_doc)])]

\* OperationalDIDRegistry::register_operational_did; the stored hash is
\* "roothash:" followed by the hex blake3 digest of the root DID.
register_operational_did(reg, op_did, root_did, vault_id, did_doc) ==
    IF op_did \in DOMAIN reg
    THEN [res |-> Err("AlreadyExists"), reg |-> reg]
    ELSE [res |-> Ok("unit"),
          reg |-> Insert(reg, op_did,
                         [root_did_hash |-> <<"roothash:", <<"blake3", root_did>>>>,
                          vault_id |-> vault_id,
                          mpc_group |-> None,
                          did_document |-> Some(did_doc)])]

\* OperationalDIDRegistry::rotate_operational_did: the entry of old_did is
\* removed and dropped; nothing is inserted under new_did.
rotate_operational_did(reg, old_did, new_did) ==
    IF old_did \notin DOMAIN reg
    THEN [res |-> Err("NotFound"), reg |-> reg, log |-> None]
    ELSE [res |-> Ok("unit"),
          reg |-> Remove(reg, old_did),
          log |-> Some(AuditRecord("Signing", new_did, <<"Rotated", old_did, new_did>>))]

\* A revocation that empties the registry.
RevokeClearing(reg, operational_did) ==
    IF operational_did \notin DOMAIN reg
    THEN [res |-> Err("NotFound"), reg |-> reg, log |-> None]
    ELSE [res |-> Ok("unit"),
          reg |-> EmptyMap,
          log |-> Some(AuditRecord("Signing", operational_did, <<"Revoked", operational_did>>))]

\* OperationalDIDRegistry::revoke_operational_did
revoke_operational_did(reg, operational_did) ==
    IF operational_did \notin DOMAIN reg
    THEN [res |-> Err("NotFound"), reg |-> reg, log |-> None]
    ELSE [res |-> Ok("unit"),
          reg |-> Remove(reg, operational_did),
          log |-> Some(AuditRecord("Signing", operational_did, <<"Revoked", operational_did>>))]

\* store_did_document / update_did_document
update_did_document(reg, op_did, doc) ==
    IF op_did \notin DOMAIN reg
    THEN [res |-> Err("NotFound"), reg |-> reg]
    ELSE [res |-> Ok("unit"), reg |-> [reg EXCEPT ![op_did].did_document = Some(doc)]]

get_did_document(reg, op_did) ==
    IF op_did \in DOMAIN reg THEN Ok(reg[op_did].did_document) ELSE Err("NotFound")

get_root_for_operational_did(reg, op_did) ==
    IF op_did \in DOMAIN reg THEN Some(reg[op_did].root_did_hash) ELSE None

get_vault_id_for_operational_did(reg, op_did) ==
    IF op_did \in DOMAIN reg THEN Some(reg[op_did].vault_id) ELSE None

get_mpc_group(reg, op_did) ==
    IF op_did \in DOMAIN reg THEN reg[op_did].mpc_group ELSE None

set_mpc_group(reg, op_did, group) ==
    IF op_did \notin DOMAIN reg
    THEN [res |-> Err("NotFound"), reg |-> reg]
    ELSE [res |-> Ok("unit"), reg |-> [reg EXCEPT ![op_did].mpc_group = Some(group)]]

set_vault_id(reg, op_did, vault_id) ==
    IF op_did \notin DOMAIN reg
    THEN [res |-> Err("NotFound"), reg |-> reg]
    ELSE [res |-> Ok("unit"), reg |-> [reg EXCEPT ![op_did].vault_id = vault_id]]

----------------------------------------------------------------------------
(* Secret shares as the vault holds them *)

GroupKeys == {"g1", "g2"}

\* base64 of a serialized frost SecretShare of group g held by participant node,
\* and a string that is no serialized share.
EncodedShare(g, node) == [kind |-> "share", group |-> g, owner |-> node]

\* The verifying share of participant node in group g, base64 encoded.
PublicShare(g, node) == [kind |-> "verifying-share", group |-> g, owner |-> node]

\* MPCMemberDescriptor.  finalize fills node_id and public_share; the provisioning
\* and rotation handlers fill vault_reference, the node id and shard_index.
DkgMember(node, g) ==
    [node_id |-> node, public_share |-> Some(PublicShare(g, node)),
     shard_index |-> None, vault_reference |-> None]

\* MPCGroupDescriptor
Descriptor(group_id, members, threshold, protocol) ==
    [group_id |-> group_id, members |-> members, threshold |-> threshold,
     dkg_protocol |-> Some(protocol), session_state |-> None]

\* The descriptor a completed DKG of all nodes for key g writes.
DkgDescriptor(group_id, g, threshold) ==
    Descriptor(group_id, [i \in 1..3 |-> DkgMember(<<"n1", "n2", "n3">>[i], g)],
               threshold, "frost-ed25519-dkg-v1")

----------------------------------------------------------------------------
(* FROST signing primitives, by their contracts *)

Messages == {"m1", "m2"}

\* base64::decode followed by SecretShare::deserialize
DecodeShare(shard_b64) ==
    IF shard_b64.kind = "share"
    THEN Ok([group |-> shard_b64.group, identifier |-> shard_b64.owner])
    ELSE Err("bad shard")

\* round1::generate_nonce: the k-th nonce pair drawn from the node's generator.
SigningNonces(k) == [hiding |-> k, binding |-> k]

\* nonces.commitment.serialize()
CommitmentBytes(nonces) == [kind |-> "commitment", of |-> nonces.hiding]

\* NonceCommitment::deserialize
DecodeCommitment(raw) ==
    IF raw.kind = "commitment" THEN Ok(raw.of) ELSE Err("bad commitment")

\* bincode::serialize / bincode::deserialize of SigningNonces
EncodeNonces(nonces) == [kind |-> "bincode-nonces", k |-> nonces.hiding]

DecodeNonces(bytes) ==
    IF bytes.kind = "bincode-nonces" THEN Ok(SigningNonces(bytes.k))
    ELSE Err("bad nonce format")

\* round2::sign: the signer's own commitment in the package must be the
\* commitment of the nonces it signs with.
FrostSign(message, commitments, share, nonces) ==
    IF share.identifier \notin DOMAIN commitments THEN Err("signing failed")
    ELSE IF commitments[share.identifier] # nonces.hiding THEN Err("signing failed")
    ELSE Ok([kind |-> "signature-share", group |-> share.group,
             identifier |-> share.identifier, message |-> message,
             commitments |-> commitments])

\* Signature::from_bytes
DecodeSignatureShare(sig_bytes) ==
    IF sig_bytes.kind = "signature-share" THEN Ok(sig_bytes) ELSE Err("Invalid sig")

\* The group key a set of verifying shares determines.
GroupKeyOf(public_shares) ==
    IF \E g \in GroupKeys : \A id \in DOMAIN public_shares : public_shares[id].group = g
    THEN CHOOSE g \in GroupKeys : \A id \in DOMAIN public_shares : public_shares[id].group = g
    ELSE "mixed"

\* The Schnorr signature the shares add up to: it is a signature of the group
\* key g only when every share was made with a share of g over this message and
\* one package of commitments.
Combine(shares, message) ==
    LET ids == DOMAIN shares
        same == /\ ids # {}
                /\ \A i, j \in ids :
                      /\ shares[i].group = shares[j].group
                      /\ shares[i].commitments = shares[j].commitments
                /\ \A i \in ids : /\ shares[i].message = message
                                  /\ shares[i].identifier = i
                                  /\ DOMAIN shares[i].commitments = ids
    IN [kind |-> "signature",
        group |-> IF same THEN shares[CHOOSE i \in ids : TRUE].group ELSE "invalid",
        message |-> message]

\* verify_signature: sig is a signature of message under group_pubkey.
VerifySignature(group_pubkey, message, sig) ==
    /\ sig.kind = "signature"
    /\ sig.group = group_pubkey
    /\ sig.group \in GroupKeys
    /\ sig.message = message

\* frost_ed25519::aggregate without its final verification.
FrostAggregateUnverified(shares, message, group_pubkey) == Ok(Combine(shares, message))

\* frost_ed25519::aggregate: combines the shares and verifies the result.
FrostAggregate(shares, message, group_pubkey) ==
    LET sig == Combine(shares, message)
    IN IF VerifySignature(group_pubkey, message, sig) THEN Ok(sig)
       ELSE Err("Aggregation failed")

----------------------------------------------------------------------------
(* vault/signing.rs *)

LoadFrom(n, st, vault_id) ==
    IF ~vaultInit[n] THEN Err("Vault not initialized") ELSE BackendLoad(n, st, vault_id)

\* The vault record the DID resolves to on node n.
ResolveRecord(n, reg, st, op_did) ==
    LET v == get_vault_id_for_operational_did(reg, op_did)
    IN IF v = None THEN Err("NotFound") ELSE LoadFrom(n, st, Unwrap(v))

get_shard(n, reg, st, op_did) ==
    LET r == ResolveRecord(n, reg, st, op_did)
    IN IF ~r.ok THEN r
       ELSE IF Unwrap(r.val).mpc_shard = None THEN Err("NotFound")
       ELSE Ok(Unwrap(Unwrap(r.val).mpc_shard))

\* set_active_nonce: sets or replaces the record's active_nonce.
set_nonce(n, reg, st, op_did, encoded) ==
    LET r == ResolveRecord(n, reg, st, op_did)
    IN IF ~r.ok THEN [res |-> r, st |-> st]
       ELSE store_record(n, st, Unwrap(get_vault_id_for_operational_did(reg, op_did)),
                         [Unwrap(r.val) EXCEPT !.active_nonce = Some(encoded)], FixedIV)

\* take_active_nonce: returns the record's active_nonce and clears it.
get_nonce(n, reg, st, op_did) ==
    LET r == ResolveRecord(n, reg, st, op_did)
    IN IF ~r.ok THEN [res |-> r, st |-> st]
       ELSE IF Unwrap(r.val).active_nonce = None
            THEN [res |-> Err("NoActiveNonce"), st |-> st]
       ELSE LET w == store_record(n, st,
                        Unwrap(get_vault_id_for_operational_did(reg, op_did)),
                        [Unwrap(r.val) EXCEPT !.active_nonce = None], FixedIV)
            IN IF ~w.res.ok THEN w
               ELSE [res |-> Ok(Unwrap(Unwrap(r.val).active_nonce)), st |-> w.st]

\* generate_nonce on node n; k numbers the nonce its generator draws.
generate_nonce(n, reg, st, op_did, k) ==
    LET shard_b64 == get_shard(n, reg, st, op_did)
    IN IF ~shard_b64.ok THEN [res |-> shard_b64, st |-> st]
       ELSE IF ~DecodeShare(Unwrap(shard_b64.val)).ok
            THEN [res |-> Err("bad shard"), st |-> st]
       ELSE LET nonces == SigningNonces(k)
                w == set_nonce(n, reg, st, op_did, EncodeNonces(nonces))
            IN IF ~w.res.ok THEN w
               ELSE [res |-> Ok(CommitmentBytes(nonces)), st |-> w.st]

\* The commitments map partial_sign builds from the incoming list.
DecodeCommitments(incoming_commitments) ==
    IF \E p \in DOMAIN incoming_commitments : ~DecodeCommitment(incoming_commitments[p]).ok
    THEN Err("bad commitment")
    ELSE Ok([p \in DOMAIN incoming_commitments |->
                Unwrap(DecodeCommitment(incoming_commitments[p]).val)])

partial_sign(n, reg, st, op_did, message, incoming_commitments) ==
    LET shard_b64 == get_shard(n, reg, st, op_did)
    IN IF ~shard_b64.ok THEN [res |-> shard_b64, st |-> st]
       ELSE LET share == DecodeShare(Unwrap(shard_b64.val))
            IN IF ~share.ok THEN [res |-> Err("bad shard"), st |-> st]
               ELSE LET nonce_bytes == get_nonce(n, reg, st, op_did)
                    IN IF ~nonce_bytes.res.ok THEN nonce_bytes
                       ELSE LET nonces == DecodeNonces(Unwrap(nonce_bytes.res.val))
                                commitments == DecodeCommitments(incoming_commitments)
                            IN IF ~nonces.ok
                               THEN [res |-> Err("bad nonce format"), st |-> nonce_bytes.st]
                               ELSE IF ~commitments.ok
                               THEN [res |-> commitments, st |-> nonce_bytes.st]
                               ELSE [res |-> FrostSign(message, Unwrap(commitments.val),
                                                       Unwrap(share.val), Unwrap(nonces.val)),
                                     st |-> nonce_bytes.st]

----------------------------------------------------------------------------
(* mpc/signing_session.rs and mpc/coordinator.rs *)

\* SigningSession::new
NewSigningSession(reg, op_did, message) ==
    LET descriptor == get_mpc_group(reg, op_did)
    IN IF descriptor = None THEN Err("No MPC group descriptor found")
       ELSE Ok([operational_did |-> op_did, message |-> message,
                group_id |-> Unwrap(descriptor).group_id,
                nonce_commitments |-> EmptyMap, partial_signatures |-> EmptyMap,
                threshold |-> Unwrap(descriptor).threshold])

record_commitment(session, peer_id, commitment) ==
    [session EXCEPT !.nonce_commitments = Insert(@, peer_id, commitment)]

record_partial(session, peer_id, sig) ==
    [session EXCEPT !.partial_signatures = Insert(@, peer_id, sig)]

ready_to_aggregate(session) ==
    Cardinality(DOMAIN session.partial_signatures) >= session.threshold

\* recover_group_key: every member's public_share must decode.
recover_group_key(group) ==
    LET ms == group.members
    IN IF \E i \in 1..Len(ms) : ms[i].public_share = None THEN Err("bad base64")
       ELSE Ok(GroupKeyOf([id \in {ms[i].node_id : i \in 1..Len(ms)} |->
                  Unwrap(ms[CHOOSE i \in 1..Len(ms) : ms[i].node_id = id].public_share)]))

aggregate_signature(session, group) ==
    LET sigs == session.partial_signatures
    IN IF \E p \in DOMAIN sigs : ~DecodeSignatureShare(sigs[p]).ok THEN Err("Invalid sig")
       ELSE IF Cardinality(DOMAIN sigs) < group.threshold THEN Err("Too few shares")
       ELSE LET group_pubkey == recover_group_key(group)
            IN IF ~group_pubkey.ok THEN group_pubkey
               ELSE FrostAggregate(sigs, session.message, Unwrap(group_pubkey.val))

----------------------------------------------------------------------------
(* DKG: dkg/types.rs, dkg/dkg_engine.rs, relay.rs, dkg/orchestrator.rs *)

\* uuid::Uuid::new_v4(): the k-th uuid minted.
Uuid(k) == "uuid-" \o ToString(k)

\* bincode::serialize(&DKGMessage::Round1(..)) / ::Round2(..)
DKGMessage(variant, raw) == [kind |-> "dkg-message", variant |-> variant, raw |-> raw]

\* bincode::deserialize::<DKGMessage>
DecodeDKGMessage(msg) ==
    IF msg.kind = "dkg-message" THEN Ok(msg) ELSE Err("MessageMalformed")

GarbageMessage ==
    [kind |-> "garbage", variant |-> "none",
     raw |-> [kind |-> "garbage", round |-> 0, from |-> "none"]]

\* The package participant id sends in a round, serialized.
RoundPackage(round, id) == [kind |-> "package", round |-> round, from |-> id]

\* A deserialization that accepts the package of any round.
DecodePackageOfAnyRound(round, raw) ==
    IF raw.kind = "package" THEN Ok(raw) ELSE Err("MessageMalformed")

\* bincode::deserialize::<Round1Package> / ::<Round2Package>
DecodePackage(round, raw) ==
    IF raw.kind = "package" /\ raw.round = round THEN Ok(raw)
    ELSE Err("MessageMalformed")

\* KeyGenMachine::new followed by round1: FROST wants 2 <= threshold <= n.
KeyGenRound1(id, threshold, participant_ids) ==
    IF threshold < 2 \/ Len(participant_ids) < 2 \/ threshold > Len(participant_ids)
    THEN Err("CryptoFailure")
    ELSE Ok([stage |-> 1, id |-> id, threshold |-> threshold,
             participants |-> {participant_ids[i] : i \in 1..Len(participant_ids)}])

\* A machine that advances on whatever packages it is given.
KeyGenAdvanceUnchecked(machine, stage, received) ==
    IF machine.stage # stage
    THEN Err("CryptoFailure")
    ELSE Ok([machine EXCEPT !.stage = stage + 1])

\* The machine's round needs the previous round's package of every other participant.
KeyGenAdvance(machine, stage, received) ==
    IF machine.stage # stage \/ DOMAIN received # machine.participants \ {machine.id}
    THEN Err("CryptoFailure")
    ELSE Ok([machine EXCEPT !.stage = stage + 1])

\* The packages of one round in a session, deserialized.
DecodeReceived(round, received) ==
    IF \E p \in DOMAIN received : ~DecodePackage(round, received[p]).ok
    THEN Err("MessageMalformed")
    ELSE Ok([p \in DOMAIN received |-> Unwrap(DecodePackage(round, received[p]).val)])

\* DKGEngine::handle_message on one node's sessions.
handle_message(sessions, group_id, from, msg) ==
    LET dkg_msg == DecodeDKGMessage(msg)
    IN IF ~dkg_msg.ok THEN [res |-> dkg_msg, sessions |-> sessions]
       ELSE IF group_id \notin DOMAIN sessions
       THEN [res |-> Err("SessionNotFound"), sessions |-> sessions]
       ELSE [res |-> Ok("unit"),
             sessions |->
                CASE msg.variant = "Round1" ->
                        [sessions EXCEPT ![group_id].round1_received = Insert(@, from, msg.raw)]
                  [] msg.variant = "Round2" ->
                        [sessions EXCEPT ![group_id].round2_received = Insert(@, from, msg.raw)]
                  [] OTHER -> sessions]

\* RelayClient::send_message to the RelayService of to_node.
RelaySend(w, from, to_node, group_id, payload) ==
    IF to_node \in down \/ to_node \notin Nodes THEN [res |-> Err("CryptoFailure"), w |-> w]
    ELSE LET r == handle_message(w.dkg[to_node], group_id, from, payload)
         IN IF ~r.res.ok THEN [res |-> Err("CryptoFailure"), w |-> w]
            ELSE [res |-> Ok("unit"), w |-> [w EXCEPT !.dkg[to_node] = r.sessions]]

\* for peer_id in participant_ids.filter(|id| id != node_id) { relay.send_message(..)? }
RECURSIVE RelayAll(_, _, _, _, _)
RelayAll(w, from, peers, group_id, payload) ==
    IF peers = << >> THEN [res |-> Ok("unit"), w |-> w]
    ELSE IF Head(peers) = from THEN RelayAll(w, from, Tail(peers), group_id, payload)
    ELSE LET r == RelaySend(w, from, Head(peers), group_id, payload)
         IN IF ~r.res.ok THEN r
            ELSE RelayAll(r.w, from, Tail(peers), group_id, payload)

\* DKGEngine::start_session on node n; group_id is the uuid it mints.
start_session(w, n, op_did, threshold, participant_ids, group_id) ==
    LET machine == KeyGenRound1(n, threshold, participant_ids)
    IN IF ~machine.ok THEN [res |-> machine, w |-> w]
       ELSE LET session == [group_id |-> group_id, operational_did |-> op_did,
                            threshold |-> threshold, participant_ids |-> participant_ids,
                            round1_received |-> EmptyMap, round2_received |-> EmptyMap,
                            finalized |-> FALSE, keygen_machine |-> machine.val]
                w1 == [w EXCEPT !.dkg[n] = Insert(@, group_id, session)]
                sent == RelayAll(w1, n, participant_ids, group_id,
                                 DKGMessage("Round1", RoundPackage(1, n)))
            IN IF ~sent.res.ok THEN sent ELSE [res |-> Ok(group_id), w |-> sent.w]

\* DKGEngine::broadcast_round2 on node n.  The machine is taken out of the
\* session first and put back only when round 2 succeeds.
broadcast_round2(w, n, group_id) ==
    IF group_id \notin DOMAIN w.dkg[n] THEN [res |-> Err("SessionNotFound"), w |-> w]
    ELSE LET session == w.dkg[n][group_id]
             taken == [w EXCEPT !.dkg[n][group_id].keygen_machine = None]
             received == DecodeReceived(1, session.round1_received)
         IN IF session.keygen_machine = None THEN [res |-> Err("CryptoFailure"), w |-> taken]
            ELSE IF ~received.ok THEN [res |-> received, w |-> taken]
            ELSE LET machine2 == KeyGenAdvance(Unwrap(session.keygen_machine), 1,
                                               Unwrap(received.val))
                 IN IF ~machine2.ok THEN [res |-> machine2, w |-> taken]
                    ELSE RelayAll([w EXCEPT !.dkg[n][group_id].keygen_machine = machine2.val],
                                  n, session.participant_ids, group_id,
                                  DKGMessage("Round2", RoundPackage(2, n)))

\* DKGEngine::finalize on node n.  The session is removed whatever follows.
finalize(w, n, group_id) ==
    IF group_id \notin DOMAIN w.dkg[n] THEN [res |-> Err("SessionNotFound"), w |-> w]
    ELSE LET session == w.dkg[n][group_id]
             w1 == [w EXCEPT !.dkg[n] = Remove(@, group_id)]
             received == DecodeReceived(2, session.round2_received)
             vault_id == get_vault_id_for_operational_did(w.entries[n], session.operational_did)
             shard == EncodedShare(group_id, n)
         IN IF session.keygen_machine = None THEN [res |-> Err("CryptoFailure"), w |-> w1]
            ELSE IF ~received.ok THEN [res |-> received, w |-> w1]
            ELSE IF ~KeyGenAdvance(Unwrap(session.keygen_machine), 2, Unwrap(received.val)).ok
            THEN [res |-> Err("CryptoFailure"), w |-> w1]
            ELSE IF vault_id = None THEN [res |-> Err("VaultNotFound"), w |-> w1]
            ELSE LET added == Mutate(n, w.store[n], Unwrap(vault_id), "add_shard", shard)
                     w2 == [w1 EXCEPT !.store[n] = added.st]
                     mpc_group ==
                        Descriptor(group_id,
                                   [i \in 1..Len(session.participant_ids) |->
                                       DkgMember(session.participant_ids[i], group_id)],
                                   session.threshold, "frost-ed25519-dkg-v1")
                     set == set_mpc_group(w.entries[n], session.operational_did, mpc_group)
                 IN IF ~added.res.ok THEN [res |-> Err("VaultStorageFailed"), w |-> w1]
                    ELSE IF ~set.res.ok THEN [res |-> Err("RegistryUpdateFailed"), w |-> w2]
                    ELSE [res |-> Ok(shard), w |-> [w2 EXCEPT !.entries[n] = set.reg]]

\* for node in &nodes { client.<rpc>(group_id).await?; } of orchestrate_dkg
RECURSIVE CallAll(_, _, _, _)
RECURSIVE CallRest(_, _, _, _)
CallRest(r, rpc, nodes, group_id) ==
    IF ~r.res.ok THEN [res |-> Err(rpc), w |-> r.w]
    ELSE CallAll(r.w, rpc, nodes, group_id)

CallAll(w, rpc, nodes, group_id) ==
    IF nodes = << >> THEN [res |-> Ok("unit"), w |-> w]
    ELSE IF Head(nodes) \in down \/ Head(nodes) \notin Nodes
    THEN [res |-> Err("connect failed"), w |-> w]
    ELSE CallRest(IF rpc = "broadcast_round2" THEN broadcast_round2(w, Head(nodes), group_id)
                  ELSE finalize(w, Head(nodes), group_id),
                  rpc, Tail(nodes), group_id)

\* orchestrate_dkg, step 3: finalize on every node.
OrchestrateFinalize(round2, nodes, group_id) ==
    IF ~round2.res.ok THEN round2 ELSE CallAll(round2.w, "finalize", nodes, group_id)

\* orchestrate_dkg, step 2: broadcast_round2 on every node.
OrchestrateRound2(started, nodes) ==
    IF ~started.res.ok THEN [res |-> Err("start_session failed"), w |-> started.w]
    ELSE OrchestrateFinalize(
            CallAll(started.w, "broadcast_round2", nodes, Unwrap(started.res.val)),
            nodes, Unwrap(started.res.val))

\* orchestrate_dkg; uuid is what the first node's start_session mints.  Indexing
\* an empty node list panics.
orchestrate_dkg(w, op_did, threshold, nodes, uuid) ==
    IF nodes = << >> THEN [res |-> Err("panic"), w |-> w]
    ELSE IF nodes[1] \in down \/ nodes[1] \notin Nodes
    THEN [res |-> Err("connect failed"), w |-> w]
    ELSE OrchestrateRound2(start_session(w, nodes[1], op_did, threshold, nodes, uuid), nodes)

----------------------------------------------------------------------------
(* Initial values *)

IdleMut ==
    [pc |-> "idle", op |-> "none", node |-> "none", vault_id |-> "none",
     arg |-> "none", rec |-> EmptyRecord, res |-> Err("pending")]

NoRegCall == [op |-> "none", a |-> "none", b |-> "none", before |-> None, bound_b |-> FALSE, res |-> Err("pending")]

\* A caller that has not invoked sign.
IdleSess ==
    [pc |-> "idle", did |-> "none", message |-> "none", group |-> None,
     participants |-> << >>, idx |-> 0, session |-> None,
     res |-> Err("pending"), attempts |-> 0]

NoVaultCall ==
    [op |-> "none", node |-> "none", did |-> "none", vault_id |-> None,
     nonce_before |-> None, res |-> Err("pending")]

NoTrackerCall == [op |-> "none", logged |-> << >>, count |-> 0, out |-> << >>]

InitDkgVars ==
    /\ dkg = [n \in Nodes |-> EmptyMap]
    /\ uuidCtr = 0
    /\ svc = [op |-> "none", did |-> "none", nodes |-> << >>, vault_id |-> None,
              before |-> None, down |-> {}, res |-> Err("pending")]
    /\ dkgLast = [op |-> "none", node |-> "none", group_id |-> "none", from |-> "none",
                  msg |-> GarbageMessage, before |-> None, res |-> Err("pending")]
    /\ malformed = {}

\* Every process after start-up: init_vault has run, nothing is stored or registered.
InitBase ==
    /\ vaultInit = [n \in Nodes |-> TRUE]
    /\ store = [n \in Nodes |-> EmptyMap]
    /\ entries = [n \in Nodes |-> EmptyMap]
    /\ audit = [n \in Nodes |-> << >>]
    /\ tracker = AuditTrackerNew(AuditGlobalMax)
    /\ trackerLast = NoTrackerCall
    /\ mut = [t \in Threads |-> IdleMut]
    /\ regLast = NoRegCall
    /\ sess = [s \in Sessions |-> IdleSess]
    /\ nonceCtr = 0
    /\ vaultLast = NoVaultCall
    /\ down = {}
    /\ InitDkgVars

\* Every process before its start-up code has called init_vault, or after.
InitProcess ==
    /\ vaultInit \in {[n \in Nodes |-> FALSE], [n \in Nodes |-> TRUE]}
    /\ store = [n \in Nodes |-> EmptyMap]
    /\ entries = [n \in Nodes |-> EmptyMap]
    /\ audit = [n \in Nodes |-> << >>]
    /\ tracker = AuditTrackerNew(AuditGlobalMax)
    /\ trackerLast = NoTrackerCall
    /\ mut = [t \in Threads |-> IdleMut]
    /\ regLast = NoRegCall
    /\ sess = [s \in Sessions |-> IdleSess]
    /\ nonceCtr = 0
    /\ vaultLast = NoVaultCall
    /\ down = {}
    /\ InitDkgVars

\* Three nodes on which did:op:A is registered for an empty vault-1; node n3
\* is reachable or not.
InitDkg ==
    /\ vaultInit = [n \in Nodes |-> TRUE]
    /\ store = [n \in Nodes |-> BackendStore(n, EmptyMap, "vault-1", EmptyRecord, FixedIV)]
    /\ entries = [n \in Nodes |->
          register_operational_did(EmptyMap, "did:op:A", "did:root:R1", "vault-1", "doc1").reg]
    /\ audit = [n \in Nodes |-> << >>]
    /\ tracker = AuditTrackerNew(AuditGlobalMax)
    /\ trackerLast = NoTrackerCall
    /\ mut = [t \in Threads |-> IdleMut]
    /\ regLast = NoRegCall
    /\ sess = [s \in Sessions |-> IdleSess]
    /\ nonceCtr = 0
    /\ vaultLast = NoVaultCall
    /\ down \in {{}, {"n3"}}
    /\ InitDkgVars

\* Three started nodes with nothing stored or registered; node n3 is reachable or not.
InitProv ==
    /\ vaultInit = [n \in Nodes |-> TRUE]
    /\ store = [n \in Nodes |-> EmptyMap]
    /\ entries = [n \in Nodes |-> EmptyMap]
    /\ audit = [n \in Nodes |-> << >>]
    /\ tracker = AuditTrackerNew(AuditGlobalMax)
    /\ trackerLast = NoTrackerCall
    /\ mut = [t \in Threads |-> IdleMut]
    /\ regLast = NoRegCall
    /\ sess = [s \in Sessions |-> IdleSess]
    /\ nonceCtr = 0
    /\ vaultLast = NoVaultCall
    /\ down \in {{}, {"n3"}}
    /\ InitDkgVars

\* Three nodes holding a 2-of-3 group for did:op:A.  Node n3 holds its share of
\* g1 or, after a shard of another group was written to its vault, one of g2;
\* it is reachable or not.
InitSign ==
    /\ vaultInit = [n \in Nodes |-> TRUE]
    /\ \E g \in GroupKeys :
          store = [n \in Nodes |->
                     BackendStore(n, EmptyMap, "vault-1",
                        [EmptyRecord EXCEPT !.mpc_shard =
                            Some(EncodedShare(IF n = "n3" THEN g ELSE "g1", n))],
                        FixedIV)]
    /\ entries = [n \in Nodes |->
          set_mpc_group(
             register_operational_did(EmptyMap, "did:op:A", "did:root:R1", "vault-1", "doc1").reg,
             "did:op:A", DkgDescriptor("group-1", "g1", 2)).reg]
    /\ audit = [n \in Nodes |-> << >>]
    /\ tracker = AuditTrackerNew(AuditGlobalMax)
    /\ trackerLast = NoTrackerCall
    /\ mut = [t \in Threads |-> IdleMut]
    /\ regLast = NoRegCall
    /\ sess = [s \in Sessions |-> IdleSess]
    /\ nonceCtr = 0
    /\ vaultLast = NoVaultCall
    /\ down \in {{}, {"n3"}}
    /\ InitDkgVars

----------------------------------------------------------------------------
(* Vault specification: mutators running on threads of one process *)

\* provision_vault_and_shards, step 2: store_record of an empty record under a new id
CreateVault(n, vault_id, iv) ==
    /\ vault_id \notin DOMAIN store[n]
    /\ store' = [store EXCEPT ![n] = store_record(n, @, vault_id, EmptyRecord, iv).st]
    /\ UNCHANGED <<tracker, trackerLast, vaultInit, entries, audit, mut, regLast, signVars, dkgVars>>

\* A mutator up to its store_record call: load_record, then the change to the copy.
MutLoad(t, n, op, vault_id, arg) ==
    /\ mut[t].pc = "idle"
    /\ LET loaded == load_record(n, vault_id)
           m == IF loaded.ok THEN Modify(op, Unwrap(loaded.val), arg) ELSE loaded
       IN mut' = [mut EXCEPT ![t] =
                    [pc |-> IF m.ok THEN "modified" ELSE "returned",
                     op |-> op, node |-> n, vault_id |-> vault_id, arg |-> arg,
                     rec |-> IF m.ok THEN Unwrap(m.val) ELSE EmptyRecord,
                     res |-> IF m.ok THEN Err("pending") ELSE m]]
    /\ UNCHANGED <<tracker, trackerLast, vaultInit, store, entries, audit, regLast, signVars, dkgVars>>

\* The mutator's closing store_record of its modified copy.
MutStore(t, iv) ==
    /\ mut[t].pc = "modified"
    /\ LET n == mut[t].node
           s == store_record(n, store[n], mut[t].vault_id, mut[t].rec, iv)
       IN /\ store' = [store EXCEPT ![n] = s.st]
          /\ mut' = [mut EXCEPT ![t].pc = "returned", ![t].res = s.res]
    /\ UNCHANGED <<tracker, trackerLast, vaultInit, entries, audit, regLast, signVars, dkgVars>>

\* init_vault called by thread t of node n's process; a panic unwinds the thread.
InitVault(t, n) ==
    /\ mut[t].pc = "idle"
    /\ LET r == init_vault(vaultInit[n])
       IN /\ vaultInit' = [vaultInit EXCEPT ![n] = r.set]
          /\ mut' = [mut EXCEPT ![t] =
                       [IdleMut EXCEPT !.pc = IF r.res.ok THEN "returned" ELSE "panicked",
                                       !.op = "init_vault", !.node = n, !.res = r.res]]
    /\ UNCHANGED <<tracker, trackerLast, store, entries, audit, regLast, signVars, dkgVars>>


NextVault ==
    \/ \E t \in Threads, n \in {"n1"} : InitVault(t, n)
    \/ \E n \in {"n1"}, v \in VaultIds, iv \in IVs : CreateVault(n, v, iv)
    \/ \E t \in Threads, n \in {"n1"}, v \in VaultIds,
          op \in {"add_shard", "add_vc", "revoke_vc", "delete_vc", "set_bbs_private_key",
                  "set_bbs_public_key", "add_public_key", "remove_public_key"} :
           \E arg \in (CASE op = "add_shard" -> {EncodedShare("g1", "n1")}
                         [] op \in {"add_vc", "revoke_vc", "delete_vc"} -> {"vc1", "vc2"}
                         [] op \in {"set_bbs_private_key", "set_bbs_public_key"} -> {"bbs1"}
                         [] op \in {"add_public_key", "remove_public_key"} -> {"pk1", "pk2"}) :
              MutLoad(t, n, op, v, arg)
    \/ \E t \in Threads, iv \in IVs : MutStore(t, iv)

SpecVault == InitProcess /\ [][NextVault]_vars

----------------------------------------------------------------------------
(* Registry specification: the registry calls of one process *)

RegNodes == {"n1"}

\* What regLast keeps of a call: its arguments, the entry bound to a and whether
\* b was bound when it was made, and its result.
RegCall(op, a, b, reg, res) ==
    [op |-> op, a |-> a, b |-> b,
     before |-> IF a \in DOMAIN reg THEN Some(reg[a]) ELSE None,
     bound_b |-> b \in DOMAIN reg, res |-> res]

RegRegister(n, op_did, root_did, vault_id, did_doc) ==
    LET r == register_operational_did(entries[n], op_did, root_did, vault_id, did_doc)
    IN /\ entries' = [entries EXCEPT ![n] = r.reg]
       /\ regLast' = RegCall("register", op_did, op_did, entries[n], r.res)
       /\ UNCHANGED <<tracker, trackerLast, vaultInit, store, audit, mut, signVars, dkgVars>>

RegRotate(n, old_did, new_did) ==
    LET r == rotate_operational_did(entries[n], old_did, new_did)
    IN /\ IsSome(r.log) => Len(audit[n]) < MaxAuditLen
       /\ entries' = [entries EXCEPT ![n] = r.reg]
       /\ audit' = [audit EXCEPT ![n] =
              IF IsSome(r.log) THEN AuditLog(@, AuditGlobalMax, Unwrap(r.log)) ELSE @]
       /\ regLast' = RegCall("rotate", old_did, new_did, entries[n], r.res)
       /\ UNCHANGED <<tracker, trackerLast, vaultInit, store, mut, signVars, dkgVars>>

RegRevoke(n, op_did) ==
    LET r == revoke_operational_did(entries[n], op_did)
    IN /\ IsSome(r.log) => Len(audit[n]) < MaxAuditLen
       /\ entries' = [entries EXCEPT ![n] = r.reg]
       /\ audit' = [audit EXCEPT ![n] =
              IF IsSome(r.log) THEN AuditLog(@, AuditGlobalMax, Unwrap(r.log)) ELSE @]
       /\ regLast' = RegCall("revoke", op_did, op_did, entries[n], r.res)
       /\ UNCHANGED <<tracker, trackerLast, vaultInit, store, mut, signVars, dkgVars>>

RegSetMpcGroup(n, op_did, group) ==
    LET r == set_mpc_group(entries[n], op_did, group)
    IN /\ entries' = [entries EXCEPT ![n] = r.reg]
       /\ regLast' = RegCall("set_mpc_group", op_did, op_did, entries[n], r.res)
       /\ UNCHANGED <<tracker, trackerLast, vaultInit, store, audit, mut, signVars, dkgVars>>

RegSetVaultId(n, op_did, vault_id) ==
    LET r == set_vault_id(entries[n], op_did, vault_id)
    IN /\ entries' = [entries EXCEPT ![n] = r.reg]
       /\ regLast' = RegCall("set_vault_id", op_did, op_did, entries[n], r.res)
       /\ UNCHANGED <<tracker, trackerLast, vaultInit, store, audit, mut, signVars, dkgVars>>

RegUpdateDidDocument(n, op_did, doc) ==
    LET r == update_did_document(entries[n], op_did, doc)
    IN /\ entries' = [entries EXCEPT ![n] = r.reg]
       /\ regLast' = RegCall("update_did_document", op_did, op_did, entries[n], r.res)
       /\ UNCHANGED <<tracker, trackerLast, vaultInit, store, audit, mut, signVars, dkgVars>>

NextRegistry ==
    \/ \E n \in RegNodes, d \in DIDs, r \in RootDIDs, v \in VaultIds, doc \in {"doc1", "doc2"} :
           RegRegister(n, d, r, v, doc)
    \/ \E n \in RegNodes, a \in DIDs, b \in DIDs : RegRotate(n, a, b)
    \/ \E n \in RegNodes, d \in DIDs : RegRevoke(n, d)
    \/ \E n \in RegNodes, d \in DIDs, g \in {DkgDescriptor("group-1", "g1", 2)} : RegSetMpcGroup(n, d, g)
    \/ \E n \in RegNodes, d \in DIDs, v \in VaultIds : RegSetVaultId(n, d, v)
    \/ \E n \in RegNodes, d \in DIDs, doc \in {"doc1", "doc2"} : RegUpdateDidDocument(n, d, doc)

SpecRegistry == InitBase /\ [][NextRegistry]_vars

----------------------------------------------------------------------------
(* Signing specification: MPCSigningCoordinator::sign on the coordinating node,
   with the vault services of the group's members *)

Coordinator == "n1"

\* How many times one caller invokes sign.
MaxAttempts == 2

\* How many nonces the generators draw in one behaviour.
MaxNonces == 6

Running(s) == sess[s].pc \in {"nonces", "partials", "aggregate"}

Returned(s) == sess[s].pc = "returned"

Return(s, res) == [sess[s] EXCEPT !.pc = "returned", !.res = res]

\* sign, steps 1 and 2: load the group, create the session.
SignStart(s, op_did, message) ==
    /\ sess[s].pc \in {"idle", "returned"}
    /\ sess[s].attempts < MaxAttempts
    /\ LET group == get_mpc_group(entries[Coordinator], op_did)
           session == NewSigningSession(entries[Coordinator], op_did, message)
           call == [IdleSess EXCEPT !.attempts = sess[s].attempts + 1,
                                    !.did = op_did, !.message = message]
       IN sess' = [sess EXCEPT ![s] =
              IF group = None
              THEN [call EXCEPT !.pc = "returned", !.res = Err("No MPC group for DID")]
              ELSE IF ~session.ok
              THEN [call EXCEPT !.pc = "returned", !.res = session]
              ELSE [call EXCEPT
                      !.pc = IF Len(Unwrap(group).members) = 0 THEN "aggregate" ELSE "nonces",
                      !.group = group,
                      !.participants = [i \in 1..Len(Unwrap(group).members) |->
                                            Unwrap(group).members[i].node_id],
                      !.idx = 1,
                      !.session = session.val]]
    /\ UNCHANGED <<tracker, trackerLast, vaultInit, store, entries, audit, mut, regLast,
                   nonceCtr, vaultLast, down, dkgVars>>

\* A nonce round that hands over to the signing round after its first commitment.
SignGenerateNonceNoBarrier(s) ==
    /\ sess[s].pc = "nonces"
    /\ nonceCtr < MaxNonces
    /\ LET peer == sess[s].participants[sess[s].idx]
           r == generate_nonce(peer, entries[peer], store[peer], sess[s].did, nonceCtr + 1)
       IN IF peer \in down
          THEN /\ sess' = [sess EXCEPT ![s] = Return(s, Err("Vault connect failed"))]
               /\ UNCHANGED <<store, nonceCtr>>
          ELSE /\ store' = [store EXCEPT ![peer] = r.st]
               /\ nonceCtr' = nonceCtr + 1
               /\ sess' = [sess EXCEPT ![s] =
                     IF ~r.res.ok THEN Return(s, Err("RPC failed"))
                     ELSE [@ EXCEPT
                             !.session = Some(record_commitment(Unwrap(@), peer,
                                                                Unwrap(r.res.val))),
                             !.idx = 1,
                             !.pc = "partials"]]
    /\ UNCHANGED <<tracker, trackerLast, vaultInit, entries, audit, mut, regLast, vaultLast, down, dkgVars>>

\* sign, step 3 for the next participant: call_generate_nonce, record_commitment.
SignGenerateNonce(s) ==
    /\ sess[s].pc = "nonces"
    /\ nonceCtr < MaxNonces
    /\ LET peer == sess[s].participants[sess[s].idx]
           r == generate_nonce(peer, entries[peer], store[peer], sess[s].did, nonceCtr + 1)
           last == sess[s].idx = Len(sess[s].participants)
       IN IF peer \in down
          THEN /\ sess' = [sess EXCEPT ![s] = Return(s, Err("Vault connect failed"))]
               /\ UNCHANGED <<store, nonceCtr>>
          ELSE /\ store' = [store EXCEPT ![peer] = r.st]
               /\ nonceCtr' = nonceCtr + 1
               /\ sess' = [sess EXCEPT ![s] =
                     IF ~r.res.ok THEN Return(s, Err("RPC failed"))
                     ELSE [@ EXCEPT
                             !.session = Some(record_commitment(Unwrap(@), peer,
                                                                Unwrap(r.res.val))),
                             !.idx = IF last THEN 1 ELSE @ + 1,
                             !.pc = IF last THEN "partials" ELSE "nonces"]]
    /\ UNCHANGED <<tracker, trackerLast, vaultInit, entries, audit, mut, regLast, vaultLast, down, dkgVars>>

\* sign, step 4 for the next participant: call_partial_sign, record_partial.
SignPartialSign(s) ==
    /\ sess[s].pc = "partials"
    /\ LET peer == sess[s].participants[sess[s].idx]
           session == Unwrap(sess[s].session)
           r == partial_sign(peer, entries[peer], store[peer], sess[s].did,
                             sess[s].message, session.nonce_commitments)
           last == sess[s].idx = Len(sess[s].participants)
       IN IF peer \in down
          THEN /\ sess' = [sess EXCEPT ![s] = Return(s, Err("Vault connect failed"))]
               /\ UNCHANGED store
          ELSE /\ store' = [store EXCEPT ![peer] = r.st]
               /\ sess' = [sess EXCEPT ![s] =
                     IF ~r.res.ok THEN Return(s, Err("RPC failed"))
                     ELSE [@ EXCEPT
                             !.session = Some(record_partial(Unwrap(@), peer,
                                                             Unwrap(r.res.val))),
                             !.idx = IF last THEN 1 ELSE @ + 1,
                             !.pc = IF last THEN "aggregate" ELSE "partials"]]
    /\ UNCHANGED <<tracker, trackerLast, vaultInit, entries, audit, mut, regLast,
                   nonceCtr, vaultLast, down, dkgVars>>

\* sign, the quorum check and step 5: aggregate_signature.
SignAggregate(s) ==
    /\ sess[s].pc = "aggregate"
    /\ sess' = [sess EXCEPT ![s] =
          IF ~ready_to_aggregate(Unwrap(sess[s].session))
          THEN Return(s, Err("Not enough signature shares collected"))
          ELSE Return(s, aggregate_signature(Unwrap(sess[s].session),
                                             Unwrap(sess[s].group)))]
    /\ UNCHANGED <<tracker, trackerLast, vaultInit, store, entries, audit, mut, regLast,
                   nonceCtr, vaultLast, down, dkgVars>>

NextSign ==
    \/ \E s \in Sessions, d \in DIDs, m \in Messages : SignStart(s, d, m)
    \/ \E s \in Sessions : SignGenerateNonce(s)
    \/ \E s \in Sessions : SignPartialSign(s)
    \/ \E s \in Sessions : SignAggregate(s)

SpecSign == InitSign /\ [][NextSign]_vars

----------------------------------------------------------------------------
(* Peer specification: the vault service of one member, called directly *)

PeerNodes == {"n2"}

\* The commitment lists a caller may send to partial_sign on node n.
CommitmentLists(n) ==
    {[p \in {n} |-> c] :
        c \in {CommitmentBytes(SigningNonces(k)) : k \in 1..nonceCtr} \cup {[kind |-> "garbage", of |-> 0]}}

\* What vaultLast keeps of a call of op for op_did on node n.
VaultCall(op, n, op_did, res) ==
    LET v == get_vault_id_for_operational_did(entries[n], op_did)
        r == ResolveRecord(n, entries[n], store[n], op_did)
    IN [op |-> op, node |-> n, did |-> op_did, vault_id |-> v,
        nonce_before |-> IF r.ok THEN Unwrap(r.val).active_nonce ELSE None,
        res |-> res]

\* VaultService::generate_nonce
PeerGenerateNonce(n, op_did) ==
    /\ nonceCtr < MaxNonces
    /\ LET r == generate_nonce(n, entries[n], store[n], op_did, nonceCtr + 1)
       IN /\ store' = [store EXCEPT ![n] = r.st]
          /\ vaultLast' = VaultCall("generate_nonce", n, op_did, r.res)
    /\ nonceCtr' = nonceCtr + 1
    /\ UNCHANGED <<tracker, trackerLast, vaultInit, entries, audit, mut, regLast, sess, down, dkgVars>>

\* VaultService::partial_sign
PeerPartialSign(n, op_did, message, commitments) ==
    /\ LET r == partial_sign(n, entries[n], store[n], op_did, message, commitments)
       IN /\ store' = [store EXCEPT ![n] = r.st]
          /\ vaultLast' = VaultCall("partial_sign", n, op_did, r.res)
    /\ UNCHANGED <<tracker, trackerLast, vaultInit, entries, audit, mut, regLast, sess, nonceCtr, down, dkgVars>>

\* vault::add_shard, run without interruption.
PeerAddShard(n, vault_id, shard) ==
    /\ store' = [store EXCEPT ![n] = Mutate(n, @, vault_id, "add_shard", shard).st]
    /\ UNCHANGED <<tracker, trackerLast, vaultInit, entries, audit, mut, regLast, signVars, dkgVars>>

NextPeer ==
    \/ \E n \in PeerNodes, d \in DIDs : PeerGenerateNonce(n, d)
    \/ \E n \in PeerNodes, d \in DIDs, m \in Messages :
          \E cs \in CommitmentLists(n) : PeerPartialSign(n, d, m, cs)
    \/ \E n \in PeerNodes, v \in VaultIds :
          \E sh \in {EncodedShare("g1", n),
                     [kind |-> "garbage", group |-> "none", owner |-> "none"]} : PeerAddShard(n, v, sh)
    \/ \E n \in PeerNodes, d \in DIDs : RegRevoke(n, d)

SpecPeer == InitSign /\ [][NextPeer]_vars

----------------------------------------------------------------------------
(* mpc_service.rs: provisioning and rotation *)

\* let threshold = 2 in provision_vault_and_shards and rotate_shards
ServiceThreshold == 2

\* The members the two handlers list: the discovered peers, numbered from 0.
ListedMembers(peers, vault_id) ==
    [i \in 1..Len(peers) |->
        [node_id |-> peers[i], public_share |-> None,
         shard_index |-> Some(i - 1), vault_reference |-> Some(vault_id)]]

\* aggregate_group_public_key: every member's public_share must decode.
aggregate_group_public_key(group) ==
    LET ms == group.members
    IN IF \E i \in 1..Len(ms) : ms[i].public_share = None
       THEN Err("Invalid base64 public key")
       ELSE Ok(GroupKeyOf([id \in {ms[i].node_id : i \in 1..Len(ms)} |->
                  Unwrap(ms[CHOOSE i \in 1..Len(ms) : ms[i].node_id = id].public_share)]))

\* provision_vault_and_shards, step 4 to the end: register the DID, write the
\* descriptor, aggregate the group key.
ProvisionRegister(w, mpc_group, op_did, root_did, vault_id) ==
    LET c == "n1"
        reg == register_operational_did(w.entries[c], op_did, root_did, vault_id, "empty-doc")
        set == set_mpc_group(reg.reg, op_did, mpc_group)
        group_pubkey == aggregate_group_public_key(mpc_group)
    IN IF ~reg.res.ok THEN [res |-> Err("register DID failed"), w |-> w]
       ELSE IF ~set.res.ok
       THEN [res |-> Err("set MPC group failed"), w |-> [w EXCEPT !.entries[c] = reg.reg]]
       ELSE IF ~group_pubkey.ok
       THEN [res |-> group_pubkey, w |-> [w EXCEPT !.entries[c] = set.reg]]
       ELSE [res |-> Ok([vault_id |-> vault_id, group_id |-> mpc_group.group_id,
                         group_public_key |-> Unwrap(group_pubkey.val)]),
             w |-> [w EXCEPT !.entries[c] = set.reg]]

\* provision_vault_and_shards after orchestrate_dkg has returned orch.
ProvisionAfterDkg(orch, op_did, root_did, peers, vault_id) ==
    IF ~orch.res.ok
    THEN [res |-> IF orch.res.err = "panic" THEN orch.res ELSE Err("DKG orchestration failed"),
          w |-> orch.w]
    ELSE ProvisionRegister(orch.w,
                           Descriptor(Unwrap(orch.res.val), ListedMembers(peers, vault_id),
                                      ServiceThreshold, "frost-dkg-v1"),
                           op_did, root_did, vault_id)

\* provision_vault_and_shards on the coordinating node; discovered is what
\* discover_peer_nodes returns, k the number of uuids minted so far.
provision_vault_and_shards(w, op_did, root_did, discovered, k) ==
    LET c == "n1"
        vault_id == "vault-" \o Uuid(k + 1)
        stored == store_record(c, w.store[c], vault_id, EmptyRecord, FixedIV)
    IN IF ~stored.res.ok THEN [res |-> Err("vault store failed"), w |-> w]
       ELSE IF ~discovered.ok
       THEN [res |-> Err("peer discovery failed"), w |-> [w EXCEPT !.store[c] = stored.st]]
       ELSE ProvisionAfterDkg(
               orchestrate_dkg([w EXCEPT !.store[c] = stored.st], op_did, ServiceThreshold,
                               Unwrap(discovered.val), Uuid(k + 2)),
               op_did, root_did, Unwrap(discovered.val), vault_id)

\* rotate_shards, steps 6 and 7: store the new key, rewrite the DID document.
RotatePublish(w, op_did, vault_id, key, new_group_id) ==
    LET c == "n1"
        added == Mutate(c, w.store[c], vault_id, "add_public_key", key)
        doc == get_did_document(w.entries[c], op_did)
        upd == update_did_document(w.entries[c], op_did, <<"with-key", doc.val, key>>)
    IN IF ~added.res.ok THEN [res |-> Err("Failed to store pubkey"), w |-> w]
       ELSE IF ~doc.ok
       THEN [res |-> Err("DID document not found"), w |-> [w EXCEPT !.store[c] = added.st]]
       ELSE IF ~upd.res.ok THEN [res |-> upd.res, w |-> [w EXCEPT !.store[c] = added.st]]
       ELSE [res |-> Ok(new_group_id),
             w |-> [w EXCEPT !.store[c] = added.st, !.entries[c] = upd.reg]]

\* rotate_shards, steps 4 and 5: replace the descriptor, aggregate the new key.
RotateDescribe(w, new_group, op_did, vault_id) ==
    LET c == "n1"
        set == set_mpc_group(w.entries[c], op_did, new_group)
        group_pubkey == aggregate_group_public_key(new_group)
    IN IF ~set.res.ok THEN [res |-> Err("Failed to update MPC group"), w |-> w]
       ELSE IF ~group_pubkey.ok
       THEN [res |-> group_pubkey, w |-> [w EXCEPT !.entries[c] = set.reg]]
       ELSE RotatePublish([w EXCEPT !.entries[c] = set.reg], op_did, vault_id,
                          Unwrap(group_pubkey.val), new_group.group_id)

\* A rotation that goes on to replace the descriptor whatever the DKG returned.
RotateRegardless(orch, op_did, peers, vault_id) ==
    RotateDescribe(orch.w,
                   Descriptor("group-new", ListedMembers(peers, vault_id),
                              ServiceThreshold, "frost-dkg-v1"),
                   op_did, vault_id)

\* rotate_shards after orchestrate_dkg has returned orch.
RotateAfterDkg(orch, op_did, peers, vault_id) ==
    IF ~orch.res.ok
    THEN [res |-> IF orch.res.err = "panic" THEN orch.res ELSE Err("DKG failed"), w |-> orch.w]
    ELSE RotateDescribe(orch.w,
                        Descriptor(Unwrap(orch.res.val), ListedMembers(peers, vault_id),
                                   ServiceThreshold, "frost-dkg-v1"),
                        op_did, vault_id)

\* rotate_shards on the coordinating node.
rotate_shards(w, op_did, discovered, k) ==
    LET vault_id == get_vault_id_for_operational_did(w.entries["n1"], op_did)
    IN IF vault_id = None THEN [res |-> Err("Vault ID not found"), w |-> w]
       ELSE IF ~discovered.ok THEN [res |-> Err("Discovery failed"), w |-> w]
       ELSE RotateAfterDkg(
               orchestrate_dkg(w, op_did, ServiceThreshold, Unwrap(discovered.val), Uuid(k + 1)),
               op_did, Unwrap(discovered.val), Unwrap(vault_id))

----------------------------------------------------------------------------
(* The DKG and relay services of the nodes, and the orchestrator *)

\* How many uuids are minted in one behaviour of the provisioning specification.
MaxUuids == 2

\* How many DKG sessions are started in one behaviour of the DKG specification.
MaxDkgSessions == 1

World == [dkg |-> dkg, store |-> store, entries |-> entries]

Apply(w) ==
    /\ dkg' = w.dkg
    /\ store' = w.store
    /\ entries' = w.entries

\* What svc keeps of a service call: its arguments, the registry entry of the
\* DID and the vault id made for it, and its result.
SvcCall(op, op_did, nodes, vault_id, res) ==
    [op |-> op, did |-> op_did, nodes |-> nodes, vault_id |-> vault_id,
     before |-> IF op_did \in DOMAIN entries["n1"] THEN Some(entries["n1"][op_did]) ELSE None,
     down |-> down, res |-> res]

\* What dkgLast keeps of a call to the DKGEngine of node n: its arguments, the
\* session the node held under group_id before the call, and its result.
DkgCall(op, n, group_id, from, msg, res) ==
    [op |-> op, node |-> n, group_id |-> group_id, from |-> from, msg |-> msg,
     before |-> IF group_id \in DOMAIN dkg[n] THEN Some(dkg[n][group_id]) ELSE None,
     res |-> res]

MintedIds == {Uuid(k) : k \in 1..uuidCtr}

\* CustodyDkgService::start_dkg_session on node n
StartDkgSession(n, op_did, threshold, participant_ids) ==
    /\ uuidCtr < MaxUuids
    /\ LET r == start_session(World, n, op_did, threshold, participant_ids, Uuid(uuidCtr + 1))
       IN /\ Apply(r.w)
          /\ svc' = SvcCall("start_session", op_did, participant_ids, None, r.res)
    /\ uuidCtr' = uuidCtr + 1
    /\ UNCHANGED <<tracker, trackerLast, vaultInit, audit, mut, regLast, signVars, dkgLast, malformed>>

\* RelayService::send_message on node n, called by any relay client
RelaySendMessage(n, group_id, from, payload) ==
    /\ LET r == handle_message(dkg[n], group_id, from, payload)
       IN /\ dkg' = [dkg EXCEPT ![n] = r.sessions]
          /\ svc' = SvcCall("send_message", "none", <<n>>, None, r.res)
          /\ dkgLast' = DkgCall("handle_message", n, group_id, from, payload, r.res)
    /\ malformed' = IF group_id \in DOMAIN dkg[n] /\ ~DecodeDKGMessage(payload).ok
                    THEN malformed \cup {<<n, group_id>>} ELSE malformed
    /\ UNCHANGED <<tracker, trackerLast, vaultInit, store, entries, audit, mut, regLast, signVars, uuidCtr>>

\* CustodyDkgService::broadcast_round2 on node n
BroadcastRound2(n, group_id) ==
    /\ LET r == broadcast_round2(World, n, group_id)
       IN /\ Apply(r.w)
          /\ svc' = SvcCall("broadcast_round2", "none", <<n>>, None, r.res)
          /\ dkgLast' = DkgCall("broadcast_round2", n, group_id, "none", GarbageMessage, r.res)
    /\ UNCHANGED <<tracker, trackerLast, vaultInit, audit, mut, regLast, signVars, uuidCtr, malformed>>

\* CustodyDkgService::finalize_dkg_session on node n
FinalizeDkgSession(n, group_id) ==
    /\ LET r == finalize(World, n, group_id)
       IN /\ Apply(r.w)
          /\ svc' = SvcCall("finalize", "none", <<n>>, None, r.res)
          /\ dkgLast' = DkgCall("finalize", n, group_id, "none", GarbageMessage, r.res)
    /\ UNCHANGED <<tracker, trackerLast, vaultInit, audit, mut, regLast, signVars, uuidCtr, malformed>>

\* orchestrate_dkg, run to its return
OrchestrateDkg(op_did, threshold, nodes) ==
    /\ uuidCtr < MaxUuids
    /\ LET r == orchestrate_dkg(World, op_did, threshold, nodes, Uuid(uuidCtr + 1))
       IN /\ Apply(r.w)
          /\ svc' = SvcCall("orchestrate_dkg", op_did, nodes, None, r.res)
    /\ uuidCtr' = uuidCtr + 1
    /\ UNCHANGED <<tracker, trackerLast, vaultInit, audit, mut, regLast, signVars, dkgLast, malformed>>

\* What a relay client acting for peer from may submit: its package of either
\* round under either tag, or bytes that are no DKGMessage.
DkgMessages(from) ==
    {DKGMessage(variant, RoundPackage(round, from)) :
        variant \in {"Round1", "Round2"}, round \in {1, 2}} \cup {GarbageMessage}

----------------------------------------------------------------------------
(* The CustodyMpc service of the coordinating node; the DKG and the
   provisioning specifications *)

\* What discover_peer_nodes may return.
Discoveries ==
    {Err("lookup failed"), Ok(<< >>), Ok(<<"n1">>), Ok(<<"n1", "n2", "n3">>)}

ProvisionVaultAndShards(op_did, root_did, discovered) ==
    /\ uuidCtr + 2 <= MaxUuids
    /\ LET r == provision_vault_and_shards(World, op_did, root_did, discovered, uuidCtr)
       IN /\ Apply(r.w)
          /\ svc' = SvcCall("provision_vault_and_shards", op_did,
                            IF discovered.ok THEN Unwrap(discovered.val) ELSE << >>,
                            Some("vault-" \o Uuid(uuidCtr + 1)), r.res)
    /\ uuidCtr' = uuidCtr + 2
    /\ UNCHANGED <<tracker, trackerLast, vaultInit, audit, mut, regLast, signVars, dkgLast, malformed>>

RotateShards(op_did, discovered) ==
    /\ uuidCtr < MaxUuids
    /\ LET r == rotate_shards(World, op_did, discovered, uuidCtr)
       IN /\ Apply(r.w)
          /\ svc' = SvcCall("rotate_shards", op_did,
                            IF discovered.ok THEN Unwrap(discovered.val) ELSE << >>,
                            get_vault_id_for_operational_did(entries["n1"], op_did), r.res)
    /\ uuidCtr' = uuidCtr + 1
    /\ UNCHANGED <<tracker, trackerLast, vaultInit, audit, mut, regLast, signVars, dkgLast, malformed>>

NextDkg ==
    \/ \E n \in {"n1"}, d \in DIDs,
          cfg \in {<<2, <<"n1", "n2">>>>, <<2, <<"n1", "n2", "n3">>>>, <<3, <<"n1", "n2">>>>} :
          uuidCtr < MaxDkgSessions /\ StartDkgSession(n, d, cfg[1], cfg[2])
    \/ \E n \in {"n1"}, g \in MintedIds, from \in {"n2", "n3"} :
          \E m \in DkgMessages(from) : RelaySendMessage(n, g, from, m)
    \/ \E n \in {"n1", "n2"}, g \in MintedIds : BroadcastRound2(n, g)
    \/ \E n \in {"n1", "n2"}, g \in MintedIds : FinalizeDkgSession(n, g)
    \/ \E d \in DIDs, ps \in {<<"n1", "n2">>, <<"n1", "n2", "n3">>} :
          uuidCtr < MaxDkgSessions /\ OrchestrateDkg(d, ServiceThreshold, ps)

SpecDkg == InitDkg /\ [][NextDkg]_vars

\* One 2-of-2 session of node n1 with peer n2, whose relay client submits
\* messages in any order and any number of times.
NextRound ==
    \/ uuidCtr < MaxDkgSessions /\ StartDkgSession("n1", "did:op:A", 2, <<"n1", "n2">>)
    \/ \E g \in MintedIds, m \in DkgMessages("n2") : RelaySendMessage("n1", g, "n2", m)
    \/ \E g \in MintedIds : BroadcastRound2("n1", g)
    \/ \E g \in MintedIds : FinalizeDkgSession("n1", g)

SpecRound == InitDkg /\ [][NextRound]_vars

\* The same, with the node and its callers never halting while a call can
\* still change something.  The engine has no timer of its own to be fair to.
SpecRoundFair == SpecRound /\ WF_vars(NextRound)

\* start_dkg_session called on node n1 again and again, while peer n2 submits
\* its packages and sessions are finalized.
NextStart ==
    \/ \E d \in DIDs,
          cfg \in {<<2, <<"n1", "n2">>>>, <<2, <<"n1", "n2", "n3">>>>, <<3, <<"n1", "n2">>>>} :
          StartDkgSession("n1", d, cfg[1], cfg[2])
    \/ \E g \in MintedIds, round \in {1, 2} :
          RelaySendMessage("n1", g, "n2",
                           DKGMessage(IF round = 1 THEN "Round1" ELSE "Round2",
                                      RoundPackage(round, "n2")))
    \/ \E g \in MintedIds : FinalizeDkgSession("n1", g)

SpecStart == InitDkg /\ [][NextStart]_vars

NextProv ==
    \/ \E d \in DIDs, r \in RootDIDs, ds \in Discoveries : ProvisionVaultAndShards(d, r, ds)
    \/ \E d \in DIDs, ds \in Discoveries : RotateShards(d, ds)
    \/ \E d \in DIDs : RegRegister("n1", d, "did:root:R1", "vault-1", "doc1")
    \/ CreateVault("n1", "vault-1", FixedIV)

SpecProv == InitProv /\ [][NextProv]_vars

\* Rotation among nodes on which the DID is registered with a vault record.
NextRotate ==
    \/ \E d \in DIDs, ds \in Discoveries : RotateShards(d, ds)
    \/ \E d \in DIDs, g \in {DkgDescriptor("group-1", "g1", 2)} : RegSetMpcGroup("n1", d, g)
    \/ \E d \in DIDs : RegRegister("n1", d, "did:root:R1", "vault-1", "doc1")

SpecRotate == InitDkg /\ [][NextRotate]_vars

----------------------------------------------------------------------------
(* Claims about the vault mutators and the registry *)

LoadedNow(n, vault_id) == Unwrap(load_record(n, vault_id).val)

\* The stored record shows the effect of thread t's additive mutator.
Reflected(t) ==
    LET rec == LoadedNow(mut[t].node, mut[t].vault_id)
    IN CASE mut[t].op = "add_shard" -> rec.mpc_shard = Some(mut[t].arg)
         [] mut[t].op = "add_public_key" -> (\E i \in 1..Len(rec.public_keys) : rec.public_keys[i] = mut[t].arg)
         [] mut[t].op = "add_vc" ->
               \E i \in 1..Len(rec.vcs) : rec.vcs[i].vc_id = mut[t].arg
         [] OTHER -> TRUE

ReturnedOk(t) == mut[t].pc = "returned" /\ mut[t].res.ok

\* Two mutators that add different things to one vault record.
Independent(t1, t2) ==
    /\ t1 # t2
    /\ mut[t1].node = mut[t2].node
    /\ mut[t1].vault_id = mut[t2].vault_id
    /\ \/ mut[t1].op = "add_shard" /\ mut[t2].op = "add_public_key"
       \/ mut[t1].op = "add_vc" /\ mut[t2].op = "add_vc" /\ mut[t1].arg # mut[t2].arg
       \/ mut[t1].op = "add_public_key" /\ mut[t2].op = "add_public_key"
          /\ mut[t1].arg # mut[t2].arg

\* C3: vault mutators are atomic per vault id: once two mutators that add
\* different things to the same vault record have both returned Ok, the stored
\* record reflects both updates (no update is lost).
C3_NoLostUpdate ==
    \A t1, t2 \in Threads :
        (Independent(t1, t2) /\ ReturnedOk(t1) /\ ReturnedOk(t2))
            => (Reflected(t1) /\ Reflected(t2))

\* add_shard and add_public_key have both returned Ok on one vault record.
C3_Witness ==
    \E t1, t2 \in Threads :
        /\ Independent(t1, t2) /\ ReturnedOk(t1) /\ ReturnedOk(t2)
        /\ mut[t1].op = "add_shard"

\* C4: after a successful rotate_operational_did(a, b) every lookup of a
\* reports not-found and the lookups of b return the vault id, root hash, group
\* descriptor and DID document that a had immediately before the call.
C4_RotateRenames ==
    \A n \in RegNodes :
        (regLast.op = "rotate" /\ regLast.res.ok) =>
            /\ get_vault_id_for_operational_did(entries[n], regLast.a) = None
            /\ get_mpc_group(entries[n], regLast.a) = None
            /\ ~get_did_document(entries[n], regLast.a).ok
            /\ get_vault_id_for_operational_did(entries[n], regLast.b)
                  = Some(Unwrap(regLast.before).vault_id)
            /\ get_root_for_operational_did(entries[n], regLast.b)
                  = Some(Unwrap(regLast.before).root_did_hash)
            /\ get_mpc_group(entries[n], regLast.b) = Unwrap(regLast.before).mpc_group
            /\ get_did_document(entries[n], regLast.b)
                  = Ok(Unwrap(regLast.before).did_document)

\* A rotate of a registered DID with a group descriptor to an unbound DID returned Ok.
C4_Witness ==
    /\ regLast.op = "rotate" /\ regLast.res.ok
    /\ regLast.a # regLast.b
    /\ ~regLast.bound_b
    /\ IsSome(Unwrap(regLast.before).mpc_group)

----------------------------------------------------------------------------
(* Claims about signing *)

\* The active_nonce of the vault record the last vault call resolved.
NonceNow ==
    LET r == LoadFrom(vaultLast.node, store[vaultLast.node], Unwrap(vaultLast.vault_id))
    IN IF r.ok THEN Unwrap(r.val).active_nonce ELSE None

\* C1: after any partial_sign call for a DID returns, with a signature share or
\* with an error, the active_nonce of the DID's vault record is empty.
C1_NonceConsumed ==
    (vaultLast.op = "partial_sign" /\ IsSome(vaultLast.vault_id)) => NonceNow = None

\* partial_sign returned an error for a DID whose vault record held a nonce.
C1_Witness ==
    /\ vaultLast.op = "partial_sign"
    /\ IsSome(vaultLast.nonce_before)
    /\ ~vaultLast.res.ok

\* C10: generate_nonce for a DID whose vault record already holds an
\* active_nonce is refused with Busy and leaves the stored nonce unchanged.
C10_SecondNonceRefused ==
    (vaultLast.op = "generate_nonce" /\ IsSome(vaultLast.nonce_before)) =>
        /\ vaultLast.res = Err("Busy")
        /\ NonceNow = vaultLast.nonce_before

\* generate_nonce was called while the record held a nonce.
C10_Witness == vaultLast.op = "generate_nonce" /\ IsSome(vaultLast.nonce_before)

\* C2: two signing sessions for one operational DID never run at the same
\* time: while one sign call is in its rounds, no second call for the DID is.
C2_OneSessionPerDid ==
    \A s1, s2 \in Sessions :
        (s1 # s2 /\ Running(s1) /\ Running(s2)) => sess[s1].did # sess[s2].did

\* A second sign call for the DID was made while the first was in its rounds.
C2_Witness ==
    \E s1, s2 \in Sessions :
        /\ s1 # s2 /\ Running(s1) /\ sess[s1].did = sess[s2].did
        /\ sess[s2].pc # "idle"

\* Nothing but caller s has used the signing service.
Alone(s) == \A o \in Sessions \ {s} : sess[o].pc = "idle" /\ sess[o].attempts = 0

\* Every member but the unreachable ones holds its share of the group key.
HealthyQuorum(op_did) ==
    LET group == Unwrap(get_mpc_group(entries[Coordinator], op_did))
        up == {i \in 1..Len(group.members) : group.members[i].node_id \notin down}
    IN /\ Cardinality(up) >= group.threshold
       /\ recover_group_key(group).ok
       /\ \A i \in up :
             LET n == group.members[i].node_id
                 shard == get_shard(n, entries[n], store[n], op_did)
             IN /\ shard.ok
                /\ DecodeShare(Unwrap(shard.val)).ok
                /\ Unwrap(DecodeShare(Unwrap(shard.val)).val)
                     = [group |-> Unwrap(recover_group_key(group).val), identifier |-> n]

\* C6: with one member of a 2-of-3 group unreachable and the other members
\* answering correctly, sign has returned a signature at the latest on the retry.
C6_ToleratesOneDown ==
    \A s \in Sessions :
        ( /\ Returned(s) /\ Alone(s)
          /\ sess[s].attempts = MaxAttempts
          /\ Cardinality(down) = 1
          /\ IsSome(get_mpc_group(entries[Coordinator], sess[s].did))
          /\ HealthyQuorum(sess[s].did) )
        => sess[s].res.ok

\* A lone caller's retry has returned while one member was unreachable.
C6_Witness ==
    \E s \in Sessions :
        /\ Returned(s) /\ Alone(s) /\ sess[s].attempts = MaxAttempts
        /\ Cardinality(down) = 1
        /\ IsSome(get_mpc_group(entries[Coordinator], sess[s].did))
        /\ HealthyQuorum(sess[s].did)

\* The group public key of the DID's descriptor in the coordinator's registry.
DescriptorKey(op_did) ==
    recover_group_key(Unwrap(get_mpc_group(entries[Coordinator], op_did)))

\* Every participant's share is in and the quorum check passes.
SharesCollected(s) ==
    /\ IsSome(sess[s].session)
    /\ DOMAIN Unwrap(sess[s].session).partial_signatures
         = {sess[s].participants[i] : i \in 1..Len(sess[s].participants)}
    /\ ready_to_aggregate(Unwrap(sess[s].session))

C7_FailureReached ==
    \E s \in Sessions : Returned(s) /\ SharesCollected(s) /\ sess[s].res.err = "Aggregation failed"

----------------------------------------------------------------------------
(* Claims about DKG, provisioning and rotation *)

\* The last service call named these nodes, all of them reachable, and the DID
\* resolves to a stored vault record on each of them.
HonestRun ==
    /\ Len(svc.nodes) >= 2
    /\ \A i \in 1..Len(svc.nodes) :
          /\ svc.nodes[i] \notin svc.down
          /\ ResolveRecord(svc.nodes[i], entries[svc.nodes[i]], store[svc.nodes[i]], svc.did).ok

\* Every participant's vault record holds a shard and its registry entry a descriptor.
FinalizedEverywhere ==
    \A i \in 1..Len(svc.nodes) :
        LET n == svc.nodes[i]
        IN /\ get_shard(n, entries[n], store[n], svc.did).ok
           /\ IsSome(get_mpc_group(entries[n], svc.did))

\* C5: a DKG for n >= 2 participants, all honest and reachable, has finalized
\* on every participant when its orchestration returns: each participant's
\* vault record has a shard and the DID's registry entry the group descriptor.
C5_DkgFinalizes ==
    (svc.op = "orchestrate_dkg" /\ HonestRun) => (svc.res.ok /\ FinalizedEverywhere)

\* An orchestrated DKG among reachable, prepared nodes has returned.
C5_Witness == svc.op = "orchestrate_dkg" /\ HonestRun

\* C8: when provision_vault_and_shards returns an error, the vault record it
\* created no longer exists.
C8_ProvisionRollsBack ==
    (svc.op = "provision_vault_and_shards" /\ ~svc.res.ok) =>
        Unwrap(svc.vault_id) \notin DOMAIN store["n1"]

\* Provisioning failed at a step after the vault record was created.
C8_Witness ==
    /\ svc.op = "provision_vault_and_shards"
    /\ ~svc.res.ok
    /\ svc.res.err # "vault store failed"

\* C9: RotateShards on a registered DID, run among reachable nodes, succeeds
\* and replaces the shards without changing the DID: the registry still binds
\* the DID to the same vault id, and its descriptor has a new group_id.
C9_RotateReplacesShards ==
    (svc.op = "rotate_shards" /\ IsSome(svc.before) /\ HonestRun) =>
        /\ svc.res.ok
        /\ get_vault_id_for_operational_did(entries["n1"], svc.did)
              = Some(Unwrap(svc.before).vault_id)
        /\ IsSome(get_mpc_group(entries["n1"], svc.did))
        /\ get_mpc_group(entries["n1"], svc.did) # Unwrap(svc.before).mpc_group

\* RotateShards has returned for a registered DID among reachable, prepared nodes.
C9_Witness == svc.op = "rotate_shards" /\ IsSome(svc.before) /\ HonestRun

\* finalize has stored a shard and written a descriptor on a node.
FinalizeSucceeded == svc.op = "finalize" /\ svc.res.ok

----------------------------------------------------------------------------
(* Claims about the messages of a DKG session *)

\* The packages a session holds for the round a message variant names.
Held(session, variant) ==
    IF variant = "Round1" THEN session.round1_received ELSE session.round2_received

\* The last engine call was a handle_message that decoded, for a session of the
\* node that already held a package of the sending peer for that round.
DuplicateDelivered ==
    /\ dkgLast.op = "handle_message"
    /\ DecodeDKGMessage(dkgLast.msg).ok
    /\ dkgLast.before # None
    /\ dkgLast.from \in DOMAIN Held(Unwrap(dkgLast.before), dkgLast.msg.variant)
    /\ dkgLast.group_id \in DOMAIN dkg[dkgLast.node]

\* C11: a second package from the same peer for the same round of a DKG
\* session is discarded: the package held for that peer and round stays the
\* first one received, and an audit Error event is recorded for the duplicate.
C11_DuplicateDiscarded ==
    DuplicateDelivered =>
        /\ Held(dkg[dkgLast.node][dkgLast.group_id], dkgLast.msg.variant)[dkgLast.from]
              = Held(Unwrap(dkgLast.before), dkgLast.msg.variant)[dkgLast.from]
        /\ \E i \in 1..Len(audit[dkgLast.node]) :
              audit[dkgLast.node][i].event_type = "Error"

\* A peer's second, different package for a round reached a session.
C11_Witness ==
    /\ DuplicateDelivered
    /\ dkgLast.msg.raw
          # Held(Unwrap(dkgLast.before), dkgLast.msg.variant)[dkgLast.from]

\* The last engine call was made on a session that had been sent a malformed
\* payload by then.
OnFaulted ==
    /\ <<dkgLast.node, dkgLast.group_id>> \in malformed
    /\ dkgLast.before # None

\* C12: once handle_message has received a malformed payload for an existing
\* session, the session is Faulted for good: every call on it fails, a later
\* message leaves the packages it holds as they were, and it neither advances
\* to round 2 nor finalizes.
C12_FaultedStays ==
    OnFaulted =>
        /\ ~dkgLast.res.ok
        /\ dkgLast.group_id \in DOMAIN dkg[dkgLast.node] =>
              LET now == dkg[dkgLast.node][dkgLast.group_id]
                  was == Unwrap(dkgLast.before)
              IN /\ now.round1_received = was.round1_received
                 /\ now.round2_received = was.round2_received
                 /\ (dkgLast.op = "broadcast_round2" /\ now.keygen_machine # None)
                       => now.keygen_machine = was.keygen_machine

\* A well-formed message reached a session after a malformed one.
C12_Witness ==
    /\ OnFaulted
    /\ dkgLast.op = "handle_message"
    /\ DecodeDKGMessage(dkgLast.msg).ok

\* A session that had been sent a malformed payload finalized.
C12_FaultedFinalized ==
    OnFaulted /\ dkgLast.op = "finalize" /\ dkgLast.res.ok

\* Some package held for the given round is not a package of that round.
WrongRoundHeld(session, round) ==
    \E p \in DOMAIN Held(session, IF round = 1 THEN "Round1" ELSE "Round2") :
        Held(session, IF round = 1 THEN "Round1" ELSE "Round2")[p].round # round

SessionsOf(n, op_did) ==
    {g \in DOMAIN dkg[n] : dkg[n][g].operational_did = op_did}

\* C14: start_session for an operational DID that already has a DKG session in
\* progress on the node is rejected with Busy and creates no second session:
\* a node's session table never holds two sessions for one operational DID.
C14_OneDkgPerDid ==
    /\ \A n \in Nodes, d \in DIDs : Cardinality(SessionsOf(n, d)) <= 1
    /\ (svc.op = "start_session" /\ Cardinality(SessionsOf("n1", svc.did)) > 1)
          => svc.res.err = "Busy"

\* start_session returned on a node that held an earlier session of the DID.
C14_Witness ==
    /\ svc.op = "start_session"
    /\ \E g \in SessionsOf("n1", svc.did) : g # Uuid(uuidCtr)

\* Node n1 holds the first session minted and lacks peer n2's round-1 package.
AwaitingPeer ==
    /\ Uuid(1) \in DOMAIN dkg["n1"]
    /\ "n2" \notin DOMAIN dkg["n1"][Uuid(1)].round1_received

\* C15: a DKG session in which a participant does not deliver its package does
\* not stay pending forever: while the package is outstanding the session
\* eventually times out and leaves the session table.
C15_SessionTimesOut ==
    AwaitingPeer ~> ~AwaitingPeer

\* A session is waiting for a peer's round-1 package.
C15_Witness ==
    AwaitingPeer /\ dkgLast.op = "handle_message"

----------------------------------------------------------------------------
(* Claims about the signing cohort, the vault backend and the registry's
   error cases *)

\* The peers a sign call has obtained a nonce commitment or a partial signature from.
Asked(s) ==
    DOMAIN Unwrap(sess[s].session).nonce_commitments
       \cup DOMAIN Unwrap(sess[s].session).partial_signatures

\* The first threshold members of the group of a sign call; the descriptor
\* lists its members by shard index.
Cohort(s) ==
    {Unwrap(sess[s].group).members[i].node_id :
        i \in 1..Unwrap(sess[s].group).threshold}

\* C16: sign cooperates with exactly threshold group members: the peers asked
\* for a nonce commitment and for a partial signature number threshold once
\* the nonce round is over, never more, and with every member available they
\* are the members with the lowest shard index.
C16_ExactlyThreshold ==
    \A s \in Sessions :
        sess[s].session # None =>
            /\ Cardinality(Asked(s)) <= Unwrap(sess[s].group).threshold
            /\ sess[s].pc \in {"partials", "aggregate"}
                  => Cardinality(Asked(s)) = Unwrap(sess[s].group).threshold
            /\ down = {} => Asked(s) \subseteq Cohort(s)

\* With every member reachable, a sign call for a 2-of-3 group finished its
\* nonce round.
C16_Witness ==
    \E s \in Sessions :
        /\ sess[s].session # None
        /\ sess[s].pc = "partials"
        /\ down = {}
        /\ Len(Unwrap(sess[s].group).members) > Unwrap(sess[s].group).threshold

\* What load_record returns for every vault id of node n.
Loads(n) == [v \in VaultIds |-> load_record(n, v)]

\* C17: vault round trip.  Every store_record(v, r), whether it creates the
\* record or closes a mutator, makes load_record(v) return exactly r and leaves
\* what load_record returns for every other vault id as it was.
C17_VaultRoundTrip ==
    [][\A n \in {"n1"} :
          /\ \A v \in VaultIds :
                (v \notin DOMAIN store[n] /\ v \in DOMAIN store'[n]) =>
                    /\ Loads(n)'[v] = Ok(EmptyRecord)
                    /\ \A u \in VaultIds \ {v} : Loads(n)'[u] = Loads(n)[u]
          /\ \A t \in Threads :
                (mut[t].pc = "modified" /\ mut'[t].pc = "returned" /\ mut[t].node = n) =>
                    /\ Loads(n)'[mut[t].vault_id] = Ok(mut[t].rec)
                    /\ \A u \in VaultIds \ {mut[t].vault_id} : Loads(n)'[u] = Loads(n)[u]
      ]_vars

\* A mutator stored a changed record under one vault id while another vault
\* id held a record too.
C17_Witness ==
    \E t \in Threads :
        /\ mut[t].pc = "returned"
        /\ mut[t].res.ok
        /\ mut[t].rec # EmptyRecord
        /\ DOMAIN store[mut[t].node] = VaultIds
        /\ load_record(mut[t].node, mut[t].vault_id) = Ok(mut[t].rec)

\* C18: the vault backend is initialized at most once per process: an
\* init_vault call on an initialized process returns an AlreadyInitialized
\* error value to its caller, who goes on running, and the backend stays set.
C18_SecondInitFails ==
    \A t \in Threads :
        mut[t].op = "init_vault" =>
            /\ mut[t].pc = "returned"
            /\ mut[t].res.ok \/ mut[t].res.err = "AlreadyInitialized"
            /\ vaultInit[mut[t].node]

\* init_vault was called on a process whose backend held a record.
C18_Witness ==
    \E t \in Threads :
        /\ mut[t].op = "init_vault"
        /\ ~mut[t].res.ok
        /\ DOMAIN store[mut[t].node] # {}

\* C19: register_operational_did on an operational DID that is already
\* registered fails with AlreadyExists and leaves the existing entry (vault id,
\* root hash, group descriptor, DID document) unchanged.
C19_RegisterRefusesBound ==
    \A n \in RegNodes :
        (regLast.op = "register" /\ regLast.before # None) =>
            /\ regLast.res = Err("AlreadyExists")
            /\ regLast.a \in DOMAIN entries[n]
            /\ entries[n][regLast.a] = Unwrap(regLast.before)

\* register_operational_did was called on a DID registered with a group descriptor.
C19_Witness ==
    /\ regLast.op = "register"
    /\ regLast.before # None
    /\ IsSome(Unwrap(regLast.before).mpc_group)

\* C20: rotate_operational_did(old, new) fails with NotFound when old is not
\* registered and with AlreadyExists when new is already registered, and in
\* both cases leaves the registry as it was: old's entry, if any, is still
\* there and new is bound exactly if it was.
C20_RotateFailsCleanly ==
    \A n \in RegNodes :
        regLast.op = "rotate" =>
            /\ regLast.before = None =>
                  /\ regLast.res = Err("NotFound")
                  /\ regLast.a \notin DOMAIN entries[n]
                  /\ regLast.bound_b <=> regLast.b \in DOMAIN entries[n]
            /\ (regLast.before # None /\ regLast.bound_b) =>
                  /\ regLast.res = Err("AlreadyExists")
                  /\ regLast.a \in DOMAIN entries[n]
                  /\ entries[n][regLast.a] = Unwrap(regLast.before)
                  /\ regLast.b \in DOMAIN entries[n]

\* rotate_operational_did was called with old registered and new bound to
\* another entry.
C20_Witness ==
    /\ regLast.op = "rotate"
    /\ regLast.before # None
    /\ regLast.bound_b
    /\ regLast.a # regLast.b

----------------------------------------------------------------------------
(* Revocation specification: a node that holds vault records registers and
   revokes operational DIDs. *)

NextRevoke ==
    \/ \E n \in PeerNodes, d \in DIDs, v \in VaultIds :
           RegRegister(n, d, "did:root:R2", v, "doc2")
    \/ \E n \in PeerNodes, d \in DIDs : RegRevoke(n, d)
    \/ \E n \in PeerNodes, d \in DIDs, g \in {DkgDescriptor("group-1", "g1", 2)} : RegSetMpcGroup(n, d, g)

SpecRevoke == InitSign /\ [][NextRevoke]_vars

\* C21: revoke_operational_did(d) removes only the entry of d: every other
\* registry entry and every vault record, the one d referenced included, is
\* unchanged; revoking an unregistered DID fails with NotFound and changes
\* neither the registry nor the vault.
C21_RevokeFrame ==
    [][regLast'.op = "revoke" =>
          /\ store' = store
          /\ \E n \in PeerNodes :
                IF regLast'.a \in DOMAIN entries[n]
                THEN /\ regLast'.res = Ok("unit")
                     /\ entries' = [entries EXCEPT ![n] =
                                      [x \in DOMAIN entries[n] \ {regLast'.a} |-> entries[n][x]]]
                ELSE /\ regLast'.res = Err("NotFound")
                     /\ entries' = entries]_vars

\* A registered DID was revoked on a node that still holds the vault record
\* the DID referenced and the entry of another DID.
C21_Witness ==
    /\ regLast.op = "revoke"
    /\ regLast.res = Ok("unit")
    /\ regLast.before # None
    /\ \E n \in PeerNodes :
          /\ regLast.a \notin DOMAIN entries[n]
          /\ Unwrap(regLast.before).vault_id \in DOMAIN store[n]
          /\ DOMAIN entries[n] # {}

----------------------------------------------------------------------------
(* Audit specification: threads logging to one AuditTracker and reading it *)

\* The largest capacity a tracker is created with, and the number of log calls
\* after which the model stops logging.
MaxCapacity == 2
MaxLogged == 3

InitAudit ==
    /\ vaultInit = [n \in Nodes |-> TRUE]
    /\ store = [n \in Nodes |-> EmptyMap]
    /\ entries = [n \in Nodes |-> EmptyMap]
    /\ audit = [n \in Nodes |-> << >>]
    /\ \E max_entries \in 0..MaxCapacity : tracker = AuditTrackerNew(max_entries)
    /\ trackerLast = NoTrackerCall
    /\ mut = [t \in Threads |-> IdleMut]
    /\ regLast = NoRegCall
    /\ sess = [s \in Sessions |-> IdleSess]
    /\ nonceCtr = 0
    /\ vaultLast = NoVaultCall
    /\ down = {}
    /\ InitDkgVars

\* AuditTracker::log called by thread t; the whole body runs under the mutex.
AuditTrackerLog(t) ==
    /\ Len(trackerLast.logged) < MaxLogged
    /\ LET record == AuditRecord("Signing", t, <<"event", Len(trackerLast.logged)>>)
       IN /\ tracker' = [tracker EXCEPT
                           !.records = AuditLog(@, tracker.max_entries, record)]
          /\ trackerLast' = [trackerLast EXCEPT !.op = "log", !.logged = Append(@, record)]
    /\ UNCHANGED <<vaultInit, store, entries, audit, mut, regLast, signVars, dkgVars>>

\* AuditTracker::recent
AuditTrackerRecent(count) ==
    /\ trackerLast' = [trackerLast EXCEPT !.op = "recent", !.count = count,
                                          !.out = recent(tracker.records, count)]
    /\ UNCHANGED <<vaultInit, store, entries, audit, mut, regLast, signVars, dkgVars,
                   tracker>>

NextAudit ==
    \/ \E t \in Threads : AuditTrackerLog(t)
    \/ \E count \in 0..MaxLogged : AuditTrackerRecent(count)

SpecAudit == InitAudit /\ [][NextAudit]_vars

\* The last n records of a sequence.
LastOf(seq, n) == SubSeq(seq, Len(seq) - n + 1, Len(seq))

\* C23: for an AuditTracker created with capacity N, after any sequence of log
\* calls the buffer holds at most N records, and they are the most recently
\* logged records in logging order.
C23_BoundedFifo ==
    /\ Len(tracker.records) <= tracker.max_entries
    /\ tracker.records =
          LastOf(trackerLast.logged,
                 IF Len(trackerLast.logged) < tracker.max_entries
                 THEN Len(trackerLast.logged) ELSE tracker.max_entries)

\* More records were logged than the tracker's capacity.
C23_Witness ==
    /\ tracker.max_entries < Len(trackerLast.logged)
    /\ trackerLast.op = "log"

\* C24: recent(n) returns min(n, number of buffered records) records, newest
\* first (the record logged last comes first), and does not modify the buffer.
C24_RecentNewestFirst ==
    [][trackerLast'.op = "recent" =>
          /\ tracker' = tracker
          /\ Len(trackerLast'.out) =
                IF trackerLast'.count < Len(tracker.records)
                THEN trackerLast'.count ELSE Len(tracker.records)
          /\ \A i \in 1..Len(trackerLast'.out) :
                trackerLast'.out[i] =
                   trackerLast.logged[Len(trackerLast.logged) + 1 - i]]_vars

\* recent was asked for fewer records than the buffer holds, and for more than one.
C24_Witness ==
    /\ trackerLast.op = "recent"
    /\ trackerLast.count < Len(tracker.records)
    /\ Len(trackerLast.out) > 1

\* C25: when k threads call log concurrently on one AuditTracker whose
\* capacity is at least k, all k records are in the buffer afterwards, each
\* exactly once, whatever the order in which the calls took the mutex.
C25_ConcurrentLogsKept ==
    LET logged == trackerLast.logged
    IN (/\ Len(logged) <= tracker.max_entries
        /\ \A i, j \in 1..Len(logged) : logged[i].session_id = logged[j].session_id => i = j)
       => \A i \in 1..Len(logged) :
             Cardinality({j \in 1..Len(tracker.records) : tracker.records[j] = logged[i]}) = 1

\* Every thread has logged once to a tracker with room for all of them.
C25_Witness ==
    /\ {trackerLast.logged[i].session_id : i \in 1..Len(trackerLast.logged)} = Threads
    /\ Len(trackerLast.logged) = Cardinality(Threads)
    /\ Len(trackerLast.logged) <= tracker.max_entries

----------------------------------------------------------------------------
(* Claims about vault-side signing and the coordinator's sessions *)

\* The messages for which partial_sign on node n would return a signature
\* share for op_did under the nonce the vault holds now.
Signable(n, op_did) ==
    {m \in Messages :
        \E cs \in CommitmentLists(n) :
            partial_sign(n, entries[n], store[n], op_did, m, cs).res.ok}

\* C26: a peer refuses partial_sign when its vault record holds no
\* active_nonce, and when the stored nonce was generated for a different
\* signing session or message than the one in the request: a call on a record
\* without a nonce returns no share, and the nonce a record holds, being that
\* of one session and one message, lets a request for at most one message
\* through.
C26_StaleNonceRefused ==
    /\ (vaultLast.op = "partial_sign" /\ vaultLast.nonce_before = None) => ~vaultLast.res.ok
    /\ \A n \in PeerNodes, d \in DIDs : Cardinality(Signable(n, d)) <= 1

\* generate_nonce has stored a nonce that no partial_sign has taken yet.
C26_Witness ==
    /\ vaultLast.op = "generate_nonce"
    /\ vaultLast.res.ok
    /\ NonceNow # None

\* The active_nonce of the vault record op_did resolves to on node n.
HeldNonce(n, op_did) ==
    LET r == ResolveRecord(n, entries[n], store[n], op_did)
    IN IF r.ok THEN Unwrap(r.val).active_nonce ELSE None

\* C27: when a signing session resolves in any way (signature returned or an
\* error in either round), no cohort member's vault record still holds an
\* active_nonce for that DID: once the only sign call for a DID has returned,
\* every participant's record is without a nonce.
C27_ResolvedLeavesNoNonce ==
    \A s \in Sessions :
        (Returned(s) /\ Alone(s) /\ sess[s].group # None) =>
            \A i \in 1..Len(sess[s].participants) :
                HeldNonce(sess[s].participants[i], sess[s].did) = None

\* The only sign call made has returned an error after its commitment round
\* had reached a member.
C27_Witness ==
    \E s \in Sessions :
        /\ Returned(s) /\ Alone(s) /\ sess[s].group # None
        /\ ~sess[s].res.ok
        /\ DOMAIN Unwrap(sess[s].session).nonce_commitments # {}

\* One sign call of the coordinator for did:op:A, and RotateShards requests
\* that arrive while the call is in its rounds.
NextOverlap ==
    \/ \E m \in Messages : SignStart("s1", "did:op:A", m)
    \/ SignGenerateNonce("s1")
    \/ SignPartialSign("s1")
    \/ SignAggregate("s1")
    \/ \E d \in DIDs, ds \in Discoveries : Running("s1") /\ RotateShards(d, ds)

SpecOverlap == InitSign /\ [][NextOverlap]_vars

----------------------------------------------------------------------------
(* Finalization specification: finalize on node n1 in two steps, with the
   node's registry handlers running between them.  finalize holds the sessions
   mutex from its first line to its last, so no other DKGEngine call of the
   node runs in between; the registry lock is taken and released by each
   registry call it makes. *)

\* finalize, lines 108-131: from sessions.remove to vault::add_shard.  Nothing
\* before set_mpc_group writes to the registry.
FinalizeAddShard(n, group_id) ==
    /\ dkgLast.res # Err("writing")
    /\ LET r == finalize(World, n, group_id)
           res == IF r.res.ok THEN Err("writing") ELSE r.res
       IN /\ dkg' = r.w.dkg
          /\ store' = r.w.store
          /\ svc' = SvcCall("finalize", "none", <<n>>, None, res)
          /\ dkgLast' = DkgCall("finalize", n, group_id, "none", GarbageMessage, res)
    /\ UNCHANGED <<tracker, trackerLast, vaultInit, entries, audit, mut, regLast, signVars,
                   uuidCtr, malformed>>

\* finalize, lines 138-152: build the descriptor, set_mpc_group, return.
FinalizeSetMpcGroup(n) ==
    /\ dkgLast.res = Err("writing")
    /\ dkgLast.node = n
    /\ LET session == Unwrap(dkgLast.before)
           mpc_group ==
              Descriptor(dkgLast.group_id,
                         [i \in 1..Len(session.participant_ids) |->
                             DkgMember(session.participant_ids[i], dkgLast.group_id)],
                         session.threshold, "frost-ed25519-dkg-v1")
           set == set_mpc_group(entries[n], session.operational_did, mpc_group)
           res == IF set.res.ok THEN Ok(EncodedShare(dkgLast.group_id, n))
                  ELSE Err("RegistryUpdateFailed")
       IN /\ entries' = [entries EXCEPT ![n] = set.reg]
          /\ svc' = [svc EXCEPT !.res = res]
          /\ dkgLast' = [dkgLast EXCEPT !.res = res]
    /\ UNCHANGED <<tracker, trackerLast, vaultInit, store, audit, mut, regLast, signVars,
                   dkg, uuidCtr, malformed>>

NextFinalize ==
    \/ /\ dkgLast.res # Err("writing")
       /\ uuidCtr < MaxDkgSessions
       /\ StartDkgSession("n1", "did:op:A", 2, <<"n1", "n2">>)
    \/ \E g \in MintedIds, round \in {1, 2} :
          /\ dkgLast.res # Err("writing")
          /\ RelaySendMessage("n1", g, "n2",
                              DKGMessage(IF round = 1 THEN "Round1" ELSE "Round2",
                                         RoundPackage(round, "n2")))
    \/ \E g \in MintedIds : dkgLast.res # Err("writing") /\ BroadcastRound2("n1", g)
    \/ \E g \in MintedIds : FinalizeAddShard("n1", g)
    \/ FinalizeSetMpcGroup("n1")
    \/ \E d \in DIDs : RegRevoke("n1", d)
    \/ \E d \in DIDs, v \in VaultIds : RegSetVaultId("n1", d, v)
    \/ RegRegister("n1", "did:op:A", "did:root:R1", "vault-1", "doc1")

SpecFinalize == InitDkg /\ [][NextFinalize]_vars

\* Some vault record of node n holds the shard finalize computes for group_id.
ShardWritten(n, group_id) ==
    \E v \in DOMAIN store[n] :
        /\ LoadFrom(n, store[n], v).ok
        /\ Unwrap(LoadFrom(n, store[n], v).val).mpc_shard = Some(EncodedShare(group_id, n))

\* C29: if finalize fails at the vault write or at the registry write, nothing
\* of the finalization remains: the vault holds no shard written by this
\* session and no entry of the registry carries the session's descriptor.
C29_FailedFinalizeLeavesNothing ==
    (dkgLast.op = "finalize"
       /\ dkgLast.res \in {Err("VaultStorageFailed"), Err("RegistryUpdateFailed")}) =>
        /\ ~ShardWritten(dkgLast.node, dkgLast.group_id)
        /\ \A d \in DOMAIN entries[dkgLast.node] :
              LET group == entries[dkgLast.node][d].mpc_group
              IN IsSome(group) => Unwrap(group).group_id # dkgLast.group_id

\* finalize failed at the registry write.
C29_Witness ==
    dkgLast.op = "finalize" /\ dkgLast.res = Err("RegistryUpdateFailed")

\* finalize failed at the vault write.
C29_VaultWriteFailed ==
    dkgLast.op = "finalize" /\ dkgLast.res = Err("VaultStorageFailed")

\* The session holds a package of the given round from every participant but n.
AllHeld(session, round, n) ==
    \A i \in 1..Len(session.participant_ids) :
        session.participant_ids[i] # n =>
            /\ session.participant_ids[i]
                  \in DOMAIN Held(session, IF round = 1 THEN "Round1" ELSE "Round2")
            /\ DecodePackage(round,
                  Held(session, IF round = 1 THEN "Round1" ELSE "Round2")[
                      session.participant_ids[i]]).ok

C30_Round2Reached ==
    /\ dkgLast.op = "broadcast_round2"
    /\ dkgLast.group_id \in DOMAIN dkg[dkgLast.node]
    /\ dkg[dkgLast.node][dkgLast.group_id].keygen_machine # None


----------------------------------------------------------------------------
(* Claims about the order of a DKG session's rounds *)

\* C31: a round-2 package from peer p is accepted into a DKG session only if a
\* round-1 package from p has already been accepted in that session: in every
\* session of every node, each peer holding a round-2 slot holds a round-1
\* slot as well.
C31_Round2AfterRound1 ==
    \A n \in Nodes : \A g \in DOMAIN dkg[n] :
        DOMAIN dkg[n][g].round2_received \subseteq DOMAIN dkg[n][g].round1_received

\* handle_message has accepted a well-formed round-2 package from a peer whose
\* round-1 package the session did not hold.
C31_Witness ==
    /\ dkgLast.op = "handle_message"
    /\ dkgLast.res.ok
    /\ dkgLast.before # None
    /\ dkgLast.msg.variant = "Round2"
    /\ DecodePackage(2, dkgLast.msg.raw).ok
    /\ dkgLast.from \notin DOMAIN Unwrap(dkgLast.before).round1_received
    /\ dkgLast.from \in DOMAIN dkg[dkgLast.node][dkgLast.group_id].round2_received


\* The last engine call was made on a session whose round 2 had been sent.
AfterRound2Sent ==
    /\ dkgLast.before # None
    /\ Unwrap(dkgLast.before).keygen_machine # None
    /\ Unwrap(Unwrap(dkgLast.before).keygen_machine).stage = 2
    /\ dkgLast.group_id \in DOMAIN dkg[dkgLast.node]

\* C32: a DKG session's phase only moves forward: no call returns a session to
\* an earlier phase.  A session whose round 2 was sent keeps its machine in
\* round 2, a repeated broadcast_round2 leaves it as it was, and so does a
\* round-1 package delivered after round 2 was sent.
C32_PhaseForwardOnly ==
    AfterRound2Sent =>
        LET now == dkg[dkgLast.node][dkgLast.group_id]
            was == Unwrap(dkgLast.before)
        IN /\ now.keygen_machine = was.keygen_machine
           /\ dkgLast.op = "broadcast_round2" => now = was
           /\ (dkgLast.op = "handle_message" /\ dkgLast.msg.variant = "Round1")
                 => now = was

\* broadcast_round2 was called a second time on a session, or a round-1
\* package reached a session whose round 2 had been sent.
C32_Witness ==
    /\ AfterRound2Sent
    /\ \/ dkgLast.op = "broadcast_round2"
       \/ /\ dkgLast.op = "handle_message"
          /\ dkgLast.msg.variant = "Round1"
          /\ dkgLast.res.ok

\* A repeated broadcast_round2 has left the session without its machine.
C32_MachineLost ==
    /\ AfterRound2Sent
    /\ dkgLast.op = "broadcast_round2"
    /\ dkg[dkgLast.node][dkgLast.group_id].keygen_machine = None

\* A round-1 package delivered after round 2 was sent has replaced the one held.
C32_LateRound1Stored ==
    /\ AfterRound2Sent
    /\ dkgLast.op = "handle_message"
    /\ dkgLast.msg.variant = "Round1"
    /\ dkg[dkgLast.node][dkgLast.group_id].round1_received
          # Unwrap(dkgLast.before).round1_received


----------------------------------------------------------------------------
(* Claims about the rounds of a sign call *)

\* The members of the group of a sign call.
Participants(s) == {sess[s].participants[i] : i \in 1..Len(sess[s].participants)}

\* C33: in sign, no partial_sign request is dispatched to any peer before
\* every member's generate_nonce has returned its commitment: the signing
\* round is entered, and a partial signature is held, only with a commitment
\* of every member; a call whose nonce round failed has sent no partial_sign.
C33_CommitmentBarrier ==
    \A s \in Sessions :
        sess[s].session # None =>
            LET session == Unwrap(sess[s].session)
            IN /\ sess[s].pc = "partials"
                    => DOMAIN session.nonce_commitments = Participants(s)
               /\ DOMAIN session.partial_signatures # {}
                    => DOMAIN session.nonce_commitments = Participants(s)
               /\ (Returned(s) /\ DOMAIN session.nonce_commitments # Participants(s))
                    => DOMAIN session.partial_signatures = {}

\* A sign call holds a partial signature.
C33_Witness ==
    \E s \in Sessions :
        /\ sess[s].session # None
        /\ DOMAIN Unwrap(sess[s].session).partial_signatures # {}

\* A sign call has returned from a nonce round that failed after its first commitment.
C33_NonceRoundFailed ==
    \E s \in Sessions :
        /\ sess[s].session # None
        /\ Returned(s)
        /\ DOMAIN Unwrap(sess[s].session).nonce_commitments
              \notin {{}, Participants(s)}


\* How many partial signatures the session of a sign call holds.
PartialCount(session) == Cardinality(DOMAIN session.partial_signatures)

\* C34: in a SigningSession the number of recorded partial signatures stays
\* below threshold until aggregation, and aggregation is attempted at most
\* once per session: a call still in its nonce or signing round holds fewer
\* than threshold partial signatures, and the step that aggregates ends the call.
C34_BelowThresholdUntilAggregation ==
    [][\A s \in Sessions :
          /\ (sess'[s].session # None /\ sess'[s].pc \in {"nonces", "partials"})
                => PartialCount(Unwrap(sess'[s].session))
                      < Unwrap(sess'[s].session).threshold
          /\ (sess[s].pc = "aggregate" /\ sess'[s] # sess[s])
                => sess'[s].pc = "returned"]_vars

\* A sign call still in its signing round holds threshold partial signatures.
C34_Witness ==
    \E s \in Sessions :
        /\ sess[s].session # None
        /\ sess[s].pc = "partials"
        /\ PartialCount(Unwrap(sess[s].session)) = Unwrap(sess[s].session).threshold


----------------------------------------------------------------------------
(* Claims about the group descriptors of the registry *)

\* The group descriptors the registries of the nodes hold.
StoredDescriptors ==
    UNION {{Unwrap(entries[n][d].mpc_group) :
               d \in {e \in DOMAIN entries[n] : entries[n][e].mpc_group # None}} :
           n \in Nodes}

\* C35: every group descriptor stored in the registry satisfies
\* |members| >= threshold >= 1, and its shard_index values are exactly
\* 0..|members|-1 without repetition.
C35_DescriptorWellFormed ==
    \A group \in StoredDescriptors :
        /\ Len(group.members) >= group.threshold
        /\ group.threshold >= 1
        /\ \A k \in 0..(Len(group.members) - 1) :
              Cardinality({i \in 1..Len(group.members) :
                              group.members[i].shard_index = Some(k)}) = 1

\* finalize has written the descriptor of a completed DKG.
C35_Witness ==
    /\ dkgLast.op = "finalize"
    /\ dkgLast.res.ok
    /\ \E group \in StoredDescriptors : group.group_id = dkgLast.group_id


\* The descriptor node n holds for DID d differs from the one it held, or is
\* that of an entry that was not there.
DescriptorWritten(n, d) ==
    /\ d \in DOMAIN entries'[n]
    /\ entries'[n][d].mpc_group # None
    /\ d \in DOMAIN entries[n] => entries'[n][d].mpc_group # entries[n][d].mpc_group

C37_VaultIdExists ==
    \A n \in Nodes : \A d \in DOMAIN entries[n] :
        entries[n][d].vault_id \in DOMAIN store[n]

\* register_operational_did has succeeded with a vault id under which the
\* node's vault holds no record.
C37_Witness ==
    /\ regLast.op = "register"
    /\ regLast.res.ok
    /\ \E n \in Nodes :
          /\ regLast.a \in DOMAIN entries[n]
          /\ store[n] # EmptyMap
          /\ entries[n][regLast.a].vault_id \notin DOMAIN store[n]


----------------------------------------------------------------------------
(* The member list of a descriptor, as the service handlers assemble it *)

\* provision_vault_and_shards, step 4 (and rotate_shards, step 4): assemble the
\* MPC group descriptor for the peers in the order discovery returned them.
AssembleDescriptor(group_id, peers, vault_id) ==
    /\ svc' = SvcCall("assemble_descriptor", "none", peers, Some(vault_id),
                      Ok(Descriptor(group_id, ListedMembers(peers, vault_id),
                                    ServiceThreshold, "frost-dkg-v1")))
    /\ UNCHANGED <<tracker, trackerLast, vaultInit, store, entries, audit, mut, regLast,
                   signVars, dkg, uuidCtr, dkgLast, malformed>>

\* The handlers' step 4 for every order in which up to three nodes can be discovered.
NextListing ==
    \E k \in 1..MaxUuids, v \in VaultIds, ps \in UNION {[1..len -> Nodes] : len \in 0..3} :
        /\ \A i, j \in 1..Len(ps) : ps[i] = ps[j] => i = j
        /\ AssembleDescriptor(Uuid(k), ps, v)

SpecListing == InitProv /\ [][NextListing]_vars

\* The place of a node identifier in the lexicographic order of the identifiers.
NodeRank(n) == CHOOSE r \in 1..3 : <<"n1", "n2", "n3">>[r] = n

\* C38: the group descriptor of a DID does not depend on the order in which
\* participants are listed or discovered: shard_index follows the
\* lexicographic order of the participant identifiers.
C38_CanonicalShardIndex ==
    svc.op = "assemble_descriptor" =>
        LET ms == Unwrap(svc.res.val).members
        IN \A i, j \in 1..Len(ms) :
              NodeRank(ms[i].node_id) < NodeRank(ms[j].node_id)
                 => Unwrap(ms[i].shard_index) < Unwrap(ms[j].shard_index)

\* A descriptor was assembled for peers discovered in another order than the
\* lexicographic one.
C38_Witness ==
    /\ svc.op = "assemble_descriptor"
    /\ \E i, j \in 1..Len(svc.nodes) :
          i < j /\ NodeRank(svc.nodes[i]) > NodeRank(svc.nodes[j])


----------------------------------------------------------------------------
(* Claims about provisioning and finalization errors *)

\* The last service call was provision_vault_and_shards for an operational DID
\* that the coordinating node had registered already.
ProvisionedAgain ==
    /\ svc.op = "provision_vault_and_shards"
    /\ svc.before # None

\* C39: a provision_vault_and_shards call for an operational DID that is
\* already registered fails with AlreadyExists, which the handler reports as
\* "register DID failed", and leaves that DID's existing registry entry and the
\* shard in its existing vault record unchanged.
C39_ProvisionRefusesRegistered ==
    ProvisionedAgain =>
        /\ svc.res = Err("register DID failed")
        /\ svc.did \in DOMAIN entries["n1"]
        /\ entries["n1"][svc.did] = Unwrap(svc.before)
        /\ Unwrap(svc.before).vault_id \in DOMAIN store["n1"] =>
              Unwrap(LoadFrom("n1", store["n1"], Unwrap(svc.before).vault_id).val).mpc_shard
                 = None

\* provision_vault_and_shards was called for a registered DID with three peers discovered.
C39_Witness ==
    /\ ProvisionedAgain
    /\ Len(svc.nodes) = 3
    /\ Unwrap(svc.before).vault_id \in DOMAIN store["n1"]


\* The last engine call was a finalize on a session that had sent round 2 and
\* did not hold the round-2 package of every other participant yet.
FinalizedEarly ==
    /\ dkgLast.op = "finalize"
    /\ dkgLast.before # None
    /\ Unwrap(dkgLast.before).keygen_machine # None
    /\ Unwrap(Unwrap(dkgLast.before).keygen_machine).stage = 2
    /\ ~AllHeld(Unwrap(dkgLast.before), 2, dkgLast.node)

\* C40: if finalize is called before round-2 packages from all other
\* participants have arrived, it fails without discarding the session: the
\* session and the packages received so far remain, so that a later finalize
\* can succeed.
C40_EarlyFinalizeKeepsSession ==
    FinalizedEarly =>
        /\ ~dkgLast.res.ok
        /\ dkgLast.group_id \in DOMAIN dkg[dkgLast.node]
        /\ dkg[dkgLast.node][dkgLast.group_id] = Unwrap(dkgLast.before)

\* finalize was called on a session that was waiting for round-2 packages.
C40_Witness ==
    /\ FinalizedEarly
    /\ dkgLast.res = Err("CryptoFailure")
    /\ dkgLast.group_id \notin DOMAIN dkg[dkgLast.node]

====
